---- MODULE Spec2Model ----
(***************************************************************************)
(* Session / authorization core of the web application:                    *)
(*   - src/src/lib/utils/session.ts      token codec and session manager   *)
(*   - src/app/api/logout/route.ts       logout route                      *)
(*   - src/unnamed/part_013              authorization gate                *)
(*   - src/src/lib/roles/permission.ts   permission resolver               *)
(*   - src/unnamed/part_002              /api/admin/users route handlers   *)
(*   - src/unnamed/part_004              /api/login route handler          *)
(*   - src/unnamed/part_015              credential verifier               *)
(*   - src/src/lib/validation/username.ts  admission filter (middleware)   *)
(*                                                                         *)
(* Time is the integer second Math.floor(Date.now() / 1000).               *)
(***************************************************************************)
EXTENDS Integers, Sequences, FiniteSets, TLC

----------------------------------------------------------------------------
(* Bounds of the model *)

\* the clock runs from 1 to MaxTime
MaxTime == 5
\* number of tokens the server signs in one behaviour
MaxTokens == 2
\* a non-default timeoutSeconds passed to createSessionToken
ShortTimeout == 1
\* a non-default timeoutSeconds that outlasts the renewal threshold
LongTimeout == 3
\* number of tokens signed in one behaviour of a session that is renewed
\* and regenerated
MaxChainTokens == 3

\* usernames are written with at most this many characters
MaxNameLen == 4

----------------------------------------------------------------------------
(* Configuration: process.env.SESSION_TIMEOUT and                          *)
(* process.env.ACTIVITY_RENEWAL_THRESHOLD are parsed at module load; the   *)
(* model runs the program configured with SESSION_TIMEOUT=4 and            *)
(* ACTIVITY_RENEWAL_THRESHOLD=2 (seconds).                                 *)

SESSION_TIMEOUT == 4
ACTIVITY_RENEWAL_THRESHOLD == 2
JWT_SECRET == "dev_secret"

----------------------------------------------------------------------------
(* Values *)

\* userData passed to createSessionToken: {id, username, email, displayName}
Identities ==
    { [id |-> 1, username |-> "alice", email |-> "alice@x", displayName |-> "Alice"],
      [id |-> 2, username |-> "bob",   email |-> "bob@x",   displayName |-> "Bob"] }

\* optional context {ipAddress?, userAgent?}; undefined fields are dropped by
\* JSON serialisation, so an absent context is the record of absent options
NoContext == [ipAddress |-> "undefined", userAgent |-> "undefined"]
Contexts == { NoContext, [ipAddress |-> "10.0.0.1", userAgent |-> "ua"] }

Timeouts == { ShortTimeout, SESSION_TIMEOUT }

\* the calls of createSessionToken the model makes: every identity, every
\* context and every timeout occurs in one of them
CreateArgs ==
    { a \in [userData : Identities, context : Contexts, timeoutSeconds : Timeouts] :
        \/ a.userData.id = 1 /\ a.context = NoContext
                             /\ a.timeoutSeconds = SESSION_TIMEOUT
        \/ a.userData.id = 2 /\ a.context # NoContext
                             /\ a.timeoutSeconds = ShortTimeout }

\* the absent token (cookie not set, null result)
NoToken == [kind |-> "none"]
\* a string that is not three dot-separated segments
Malformed == [kind |-> "malformed"]
\* three segments whose payload segment is not base64url-encoded JSON
NotJson == [kind |-> "notjson"]
\* no payload / no user (undefined data, null user)
NoData == [kind |-> "none"]

\* HS256 signature of a payload under a key
Mac(key, payload) == [alg |-> "HS256", key |-> key, over |-> payload]

\* jwt.sign(payload, JWT_SECRET): header.payload.signature
jwtSign(payload) ==
    [kind |-> "jwt", payload |-> payload, sig |-> Mac(JWT_SECRET, payload)]

\* the signature segment matches the payload segment under JWT_SECRET
SignatureOK(token) ==
    /\ token.kind = "jwt"
    /\ token.sig = Mac(JWT_SECRET, token.payload)

\* jwt.verify(token, JWT_SECRET) at clock `t`: the payload, or a throw.
\* jsonwebtoken rejects a bad signature and a token with t >= exp.
jwtVerify(token, t) ==
    IF token.kind # "jwt" THEN [threw |-> TRUE]
    ELSE IF ~SignatureOK(token) THEN [threw |-> TRUE]
    ELSE IF t >= token.payload.exp THEN [threw |-> TRUE]
    ELSE [threw |-> FALSE, payload |-> token.payload]

----------------------------------------------------------------------------
(* Session manager: src/src/lib/utils/session.ts *)

\* generateSessionId(): 32 bytes from the CSPRNG; a draw never repeats an id
\* already in use, so the model hands out the least unused one
generateSessionId(used) ==
    CHOOSE s \in 1..(Cardinality(used) + 1) :
        /\ s \notin used
        /\ \A r \in 1..(Cardinality(used) + 1) : r \notin used => s <= r

\* createSessionToken that stamps exp = now, leaving the timeout out
createSessionToken_noTimeout(userData, context, timeoutSeconds, t, sid) ==
    jwtSign([ id |-> userData.id,
              username |-> userData.username,
              email |-> userData.email,
              displayName |-> userData.displayName,
              sessionId |-> sid,
              iat |-> t,
              exp |-> t,
              lastActivity |-> t,
              ipAddress |-> context.ipAddress,
              userAgent |-> context.userAgent ])

\* createSessionToken(userData, context, timeoutSeconds) at clock t
createSessionToken(userData, context, timeoutSeconds, t, sid) ==
    jwtSign([ id |-> userData.id,
              username |-> userData.username,
              email |-> userData.email,
              displayName |-> userData.displayName,
              sessionId |-> sid,
              iat |-> t,
              exp |-> t + timeoutSeconds,
              lastActivity |-> t,
              ipAddress |-> context.ipAddress,
              userAgent |-> context.userAgent ])

\* verifySessionToken that asks for renewal only after the threshold has
\* been exceeded
verifySessionToken_staleAfter(token, t) ==
    LET v == jwtVerify(token, t) IN
    IF v.threw
    THEN [valid |-> FALSE, data |-> NoData, needsRenewal |-> FALSE,
          error |-> "Invalid token"]
    ELSE IF v.payload.exp # 0 /\ t >= v.payload.exp
    THEN [valid |-> FALSE, data |-> NoData, needsRenewal |-> FALSE,
          error |-> "Token expired"]
    ELSE [valid |-> TRUE, data |-> v.payload,
          needsRenewal |->
              (t - v.payload.lastActivity > ACTIVITY_RENEWAL_THRESHOLD),
          error |-> "none"]

\* verifySessionToken that refuses a token once it is stale enough to have
\* been renewed
verifySessionToken_freshOnly(token, t) ==
    LET v == jwtVerify(token, t) IN
    IF v.threw
    THEN [valid |-> FALSE, data |-> NoData, needsRenewal |-> FALSE,
          error |-> "Invalid token"]
    ELSE IF v.payload.exp # 0 /\ t >= v.payload.exp
    THEN [valid |-> FALSE, data |-> NoData, needsRenewal |-> FALSE,
          error |-> "Token expired"]
    ELSE IF t - v.payload.lastActivity >= ACTIVITY_RENEWAL_THRESHOLD
    THEN [valid |-> FALSE, data |-> NoData, needsRenewal |-> FALSE,
          error |-> "Invalid token"]
    ELSE [valid |-> TRUE, data |-> v.payload, needsRenewal |-> FALSE,
          error |-> "none"]

\* verifySessionToken(token) at clock t
verifySessionToken(token, t) ==
    LET v == jwtVerify(token, t) IN
    IF v.threw
    THEN [valid |-> FALSE, data |-> NoData, needsRenewal |-> FALSE,
          error |-> "Invalid token"]
    ELSE IF v.payload.exp # 0 /\ t >= v.payload.exp
    THEN [valid |-> FALSE, data |-> NoData, needsRenewal |-> FALSE,
          error |-> "Token expired"]
    ELSE [valid |-> TRUE, data |-> v.payload,
          needsRenewal |->
              (t - v.payload.lastActivity >= ACTIVITY_RENEWAL_THRESHOLD),
          error |-> "none"]

\* verifySessionTokenEdge with the expiry test written now > exp
verifySessionTokenEdge_strict(token, t) ==
    IF token.kind \in {"malformed", "none"}
    THEN [valid |-> FALSE, data |-> NoData, needsRenewal |-> FALSE,
          error |-> "Invalid token format"]
    ELSE IF token.kind = "notjson"
    THEN [valid |-> FALSE, data |-> NoData, needsRenewal |-> FALSE,
          error |-> "Invalid token"]
    ELSE IF token.payload.exp # 0 /\ t > token.payload.exp
    THEN [valid |-> FALSE, data |-> NoData, needsRenewal |-> FALSE,
          error |-> "Token expired"]
    ELSE [valid |-> TRUE, data |-> token.payload,
          needsRenewal |->
              (t - token.payload.lastActivity >= ACTIVITY_RENEWAL_THRESHOLD),
          error |-> "none"]

\* verifySessionTokenEdge whose catch block reports an expired token
verifySessionTokenEdge_expiredOnCatch(token, t) ==
    IF token.kind \in {"malformed", "none"}
    THEN [valid |-> FALSE, data |-> NoData, needsRenewal |-> FALSE,
          error |-> "Invalid token format"]
    ELSE IF token.kind = "notjson"
    THEN [valid |-> FALSE, data |-> NoData, needsRenewal |-> FALSE,
          error |-> "Token expired"]
    ELSE IF token.payload.exp # 0 /\ t >= token.payload.exp
    THEN [valid |-> FALSE, data |-> NoData, needsRenewal |-> FALSE,
          error |-> "Token expired"]
    ELSE [valid |-> TRUE, data |-> token.payload,
          needsRenewal |->
              (t - token.payload.lastActivity >= ACTIVITY_RENEWAL_THRESHOLD),
          error |-> "none"]

\* verifySessionTokenEdge(token) at clock t: decodes the payload segment,
\* never looks at the signature segment
verifySessionTokenEdge(token, t) ==
    IF token.kind \in {"malformed", "none"}
    THEN [valid |-> FALSE, data |-> NoData, needsRenewal |-> FALSE,
          error |-> "Invalid token format"]
    ELSE IF token.kind = "notjson"
    THEN [valid |-> FALSE, data |-> NoData, needsRenewal |-> FALSE,
          error |-> "Invalid token"]
    ELSE IF token.payload.exp # 0 /\ t >= token.payload.exp
    THEN [valid |-> FALSE, data |-> NoData, needsRenewal |-> FALSE,
          error |-> "Token expired"]
    ELSE [valid |-> TRUE, data |-> token.payload,
          needsRenewal |->
              (t - token.payload.lastActivity >= ACTIVITY_RENEWAL_THRESHOLD),
          error |-> "none"]

\* renewSessionToken that keeps the lastActivity of the token it renews
\* and moves its session id
renewSessionToken_staleCopy(token, t) ==
    LET result == verifySessionToken(token, t) IN
    IF ~result.valid THEN NoToken
    ELSE IF ~result.needsRenewal THEN token
    ELSE jwtSign([result.data EXCEPT !.iat = t,
                                     !.exp = t + SESSION_TIMEOUT,
                                     !.sessionId = @ + 10,
                                     !.lastActivity = @ - 1])

\* renewSessionToken without the early return on needsRenewal = false
renewSessionToken_always(token, t) ==
    LET result == verifySessionToken(token, t) IN
    IF ~result.valid THEN NoToken
    ELSE jwtSign([result.data EXCEPT !.iat = t,
                                     !.exp = t + SESSION_TIMEOUT,
                                     !.lastActivity = t])

\* renewSessionToken that leaves the expiry of the session where it was
renewSessionToken_keepsExp(token, t) ==
    LET result == verifySessionToken(token, t) IN
    IF ~result.valid THEN NoToken
    ELSE IF ~result.needsRenewal THEN token
    ELSE jwtSign([result.data EXCEPT !.iat = t,
                                     !.lastActivity = t])

\* renewSessionToken resting on the decode-only check
renewSessionToken_edge(token, t) ==
    LET result == verifySessionTokenEdge(token, t) IN
    IF ~result.valid THEN NoToken
    ELSE IF ~result.needsRenewal THEN token
    ELSE jwtSign([result.data EXCEPT !.iat = t,
                                     !.exp = t + SESSION_TIMEOUT,
                                     !.lastActivity = t])

\* renewSessionToken(token) at clock t: null, the token itself, or a new one
renewSessionToken(token, t) ==
    LET result == verifySessionToken(token, t) IN
    IF ~result.valid THEN NoToken
    ELSE IF ~result.needsRenewal THEN token
    ELSE jwtSign([result.data EXCEPT !.iat = t,
                                     !.exp = t + SESSION_TIMEOUT,
                                     !.lastActivity = t])

\* whether renewSessionToken reaches its jwt.sign call
renewSigns(token, t) ==
    LET result == verifySessionToken(token, t) IN
    result.valid /\ result.needsRenewal

\* getUserFromSession resting on the decode-only check
getUserFromSession_edge(token, t) ==
    LET result == verifySessionTokenEdge(token, t) IN
    IF ~result.valid THEN NoData
    ELSE [ id |-> result.data.id,
           username |-> result.data.username,
           email |-> result.data.email,
           displayName |-> result.data.displayName,
           sessionId |-> result.data.sessionId ]

\* getUserFromSession(token) at clock t
getUserFromSession(token, t) ==
    LET result == verifySessionToken(token, t) IN
    IF ~result.valid THEN NoData
    ELSE [ id |-> result.data.id,
           username |-> result.data.username,
           email |-> result.data.email,
           displayName |-> result.data.displayName,
           sessionId |-> result.data.sessionId ]

\* regenerateSession that carries the session id over
regenerateSession_keepsId(token, t, sid) ==
    LET result == verifySessionToken(token, t) IN
    IF ~result.valid THEN NoToken
    ELSE jwtSign([result.data EXCEPT !.iat = t,
                                     !.exp = t + SESSION_TIMEOUT,
                                     !.lastActivity = t])

\* regenerateSession(token) at clock t with a fresh session id
regenerateSession(token, t, sid) ==
    LET result == verifySessionToken(token, t) IN
    IF ~result.valid THEN NoToken
    ELSE jwtSign([result.data EXCEPT !.sessionId = sid,
                                     !.iat = t,
                                     !.exp = t + SESSION_TIMEOUT,
                                     !.lastActivity = t])

\* clearSessionCookie(response): cookie "id" set to "" with maxAge 0
clearSessionCookie == [name |-> "id", value |-> NoToken, maxAge |-> 0]

----------------------------------------------------------------------------
(* Permission resolver: src/src/lib/roles/permission.ts *)

\* rows of the permissions table
PermissionRows ==
    { [id |-> 1, name |-> "admin_access"],
      [id |-> 2, name |-> "manage_users"],
      [id |-> 3, name |-> "edit_profile"] }

\* rows of the role_permissions table: role 1 administers, role 2 manages
\* users, role 3 edits its profile, role 4 has no permission
RolePermissionRows ==
    { [role_id |-> 1, permission_id |-> 1],
      [role_id |-> 2, permission_id |-> 2],
      [role_id |-> 3, permission_id |-> 3] }

RoleIds == 1..4

\* a lookup that reports an error when it is reached, or "none"
Faults == {"none", "user_roles", "role_permissions", "permissions"}

\* getUserPermissions that follows the least role of the user only
getUserPermissions_oneRole(userId, db, fault) ==
    LET held == { r.role_id : r \in { x \in db.user_roles : x.user_id = userId } }
        roleIds == { r \in held : \A q \in held : r <= q }
        permissionIds ==
            { r.permission_id :
                r \in { x \in db.role_permissions : x.role_id \in roleIds } }
        names ==
            { r.name : r \in { x \in db.permissions : x.id \in permissionIds } }
    IN
    IF fault = "user_roles" THEN [threw |-> TRUE, names |-> {}, lookups |-> 1]
    ELSE IF roleIds = {} THEN [threw |-> FALSE, names |-> {}, lookups |-> 1]
    ELSE IF fault = "role_permissions"
    THEN [threw |-> TRUE, names |-> {}, lookups |-> 2]
    ELSE IF permissionIds = {} THEN [threw |-> FALSE, names |-> {}, lookups |-> 2]
    ELSE IF fault = "permissions" THEN [threw |-> TRUE, names |-> {}, lookups |-> 3]
    ELSE [threw |-> FALSE, names |-> names, lookups |-> 3]

\* getUserPermissions that answers a failed lookup with no permissions
getUserPermissions_silentDeny(userId, db, fault) ==
    LET roleIds == { r.role_id : r \in { x \in db.user_roles : x.user_id = userId } }
        permissionIds ==
            { r.permission_id :
                r \in { x \in db.role_permissions : x.role_id \in roleIds } }
        names ==
            { r.name : r \in { x \in db.permissions : x.id \in permissionIds } }
    IN
    IF fault = "user_roles" THEN [threw |-> FALSE, names |-> {}, lookups |-> 1]
    ELSE IF roleIds = {} THEN [threw |-> FALSE, names |-> {}, lookups |-> 1]
    ELSE IF fault = "role_permissions"
    THEN [threw |-> FALSE, names |-> {}, lookups |-> 2]
    ELSE IF permissionIds = {} THEN [threw |-> FALSE, names |-> {}, lookups |-> 2]
    ELSE IF fault = "permissions" THEN [threw |-> FALSE, names |-> {}, lookups |-> 3]
    ELSE [threw |-> FALSE, names |-> names, lookups |-> 3]

\* getUserPermissions(userId) over the tables `db`; `fault` names the lookup
\* that reports an error. Returns the names, or a throw, and the number of
\* lookups made.
getUserPermissions(userId, db, fault) ==
    LET roleIds == { r.role_id : r \in { x \in db.user_roles : x.user_id = userId } }
        permissionIds ==
            { r.permission_id :
                r \in { x \in db.role_permissions : x.role_id \in roleIds } }
        names ==
            { r.name : r \in { x \in db.permissions : x.id \in permissionIds } }
    IN
    IF fault = "user_roles" THEN [threw |-> TRUE, names |-> {}, lookups |-> 1]
    ELSE IF roleIds = {} THEN [threw |-> FALSE, names |-> {}, lookups |-> 1]
    ELSE IF fault = "role_permissions"
    THEN [threw |-> TRUE, names |-> {}, lookups |-> 2]
    ELSE IF permissionIds = {} THEN [threw |-> FALSE, names |-> {}, lookups |-> 2]
    ELSE IF fault = "permissions" THEN [threw |-> TRUE, names |-> {}, lookups |-> 3]
    ELSE [threw |-> FALSE, names |-> names, lookups |-> 3]

\* userHasPermission(userId, requiredPermission)
userHasPermission(userId, requiredPermission, db, fault) ==
    LET userPermissions == getUserPermissions(userId, db, fault) IN
    [ threw |-> userPermissions.threw,
      has |-> (~userPermissions.threw /\ requiredPermission \in userPermissions.names),
      lookups |-> userPermissions.lookups ]

----------------------------------------------------------------------------
(* Authorization gate: src/unnamed/part_013 *)

\* no error: the caller proceeds
NoError == [status |-> 0, error |-> "none"]

\* property names every object literal inherits from Object.prototype:
\* responses[name] is then a function or an object, which is truthy and has
\* neither a status nor a message
ObjectPrototypeKeys ==
    { "constructor", "toString", "valueOf", "hasOwnProperty", "__proto__" }

\* handleAuthorizationError(errorType): the NextResponse.json it builds from
\* responses[errorType] || responses.server_error. With status undefined the
\* response gets the default status 200, and its body has no error member.
handleAuthorizationError(errorType) ==
    IF errorType = "unauthenticated"
    THEN [status |-> 401, error |-> "Authentication required"]
    ELSE IF errorType = "unauthorized"
    THEN [status |-> 403, error |-> "Access denied"]
    ELSE IF errorType = "server_error"
    THEN [status |-> 500, error |-> "Internal server error"]
    ELSE IF errorType \in ObjectPrototypeKeys
    THEN [status |-> 200, error |-> "undefined"]
    ELSE [status |-> 500, error |-> "Internal server error"]

\* requireRole that derives "admin" from manage_users as well
requireRole_managerIsAdmin(allowedRoles, token, t, db, fault) ==
    LET user == getUserFromSession(token, t) IN
    IF user = NoData
    THEN [user |-> NoData, error |-> handleAuthorizationError("unauthenticated"),
          lookups |-> 0]
    ELSE
        LET userPermissions == getUserPermissions(user.id, db, fault)
            userRoles ==
                (IF "admin_access" \in userPermissions.names THEN {"admin"} ELSE {})
                \cup
                (IF "manage_users" \in userPermissions.names
                 THEN {"admin", "manager"} ELSE {})
                \cup {"user"}
            hasPermission == \E role \in userRoles : role \in allowedRoles
        IN
        IF userPermissions.threw
        THEN [user |-> NoData, error |-> handleAuthorizationError("server_error"),
              lookups |-> userPermissions.lookups]
        ELSE IF ~hasPermission
        THEN [user |-> user, error |-> handleAuthorizationError("unauthorized"),
              lookups |-> userPermissions.lookups]
        ELSE [user |-> user, error |-> NoError,
              lookups |-> userPermissions.lookups]

\* requireRole(allowedRoles)(token) at clock t
requireRole(allowedRoles, token, t, db, fault) ==
    LET user == getUserFromSession(token, t) IN
    IF user = NoData
    THEN [user |-> NoData, error |-> handleAuthorizationError("unauthenticated"),
          lookups |-> 0]
    ELSE
        LET userPermissions == getUserPermissions(user.id, db, fault)
            userRoles ==
                (IF "admin_access" \in userPermissions.names THEN {"admin"} ELSE {})
                \cup
                (IF "manage_users" \in userPermissions.names THEN {"manager"} ELSE {})
                \cup {"user"}
            hasPermission == \E role \in userRoles : role \in allowedRoles
        IN
        IF userPermissions.threw
        THEN [user |-> NoData, error |-> handleAuthorizationError("server_error"),
              lookups |-> userPermissions.lookups]
        ELSE IF ~hasPermission
        THEN [user |-> user, error |-> handleAuthorizationError("unauthorized"),
              lookups |-> userPermissions.lookups]
        ELSE [user |-> user, error |-> NoError,
              lookups |-> userPermissions.lookups]

\* requirePermission that answers "unauthorized" when there is no session
requirePermission_noSession403(requiredPermission, token, t, db, fault) ==
    LET user == getUserFromSession(token, t) IN
    IF user = NoData
    THEN [user |-> NoData, error |-> handleAuthorizationError("unauthorized"),
          lookups |-> 0]
    ELSE
        LET hasPermission == userHasPermission(user.id, requiredPermission, db, fault)
        IN
        IF hasPermission.threw
        THEN [user |-> NoData, error |-> handleAuthorizationError("server_error"),
              lookups |-> hasPermission.lookups]
        ELSE IF ~hasPermission.has
        THEN [user |-> user, error |-> handleAuthorizationError("unauthorized"),
              lookups |-> hasPermission.lookups]
        ELSE [user |-> user, error |-> NoError,
              lookups |-> hasPermission.lookups]

\* requirePermission(requiredPermission)(token) at clock t
requirePermission(requiredPermission, token, t, db, fault) ==
    LET user == getUserFromSession(token, t) IN
    IF user = NoData
    THEN [user |-> NoData, error |-> handleAuthorizationError("unauthenticated"),
          lookups |-> 0]
    ELSE
        LET hasPermission == userHasPermission(user.id, requiredPermission, db, fault)
        IN
        IF hasPermission.threw
        THEN [user |-> NoData, error |-> handleAuthorizationError("server_error"),
              lookups |-> hasPermission.lookups]
        ELSE IF ~hasPermission.has
        THEN [user |-> user, error |-> handleAuthorizationError("unauthorized"),
              lookups |-> hasPermission.lookups]
        ELSE [user |-> user, error |-> NoError,
              lookups |-> hasPermission.lookups]

\* withRoleAuthorization(token, allowedRoles)
withRoleAuthorization(token, allowedRoles, t, db, fault) ==
    requireRole(allowedRoles, token, t, db, fault)

\* withPermissionAuthorization(token, requiredPermission)
withPermissionAuthorization(token, requiredPermission, t, db, fault) ==
    requirePermission(requiredPermission, token, t, db, fault)

\* setGlobalLogoutTimestamp: the process-wide watermark becomes the clock
setGlobalLogoutTimestamp(t) == t

----------------------------------------------------------------------------
(* Username validation: src/src/lib/validation/username.ts, lines 11-77.   *)
(* A username is the sequence of its characters.                           *)

\* characters of [A-Za-z0-9] the model writes usernames with
AlnumChars == {"a", "p", "i", "A", "1"}

\* the other characters of [A-Za-z0-9_-]
HyphenUnderscore == {"-", "_"}

\* characters outside [A-Za-z0-9_-]; " " is the one String.trim removes
OtherChars == {"@", "!", " "}

Chars == AlnumChars \cup HyphenUnderscore \cup OtherChars

\* a username longer than the 30 characters the validator admits
LongName == [i \in 1..31 |-> "a"]

\* every username of at most MaxNameLen characters, and the long one
Usernames ==
    UNION { [1..n -> Chars] : n \in 0..MaxNameLen } \cup {LongName}

\* username.trim() is the empty string
trimIsEmpty(username) == \A i \in 1..Len(username) : username[i] = " "

\* username.includes("@")
includesAtSign(username) == \E i \in 1..Len(username) : username[i] = "@"

\* /^[A-Za-z0-9_-]+$/.test(username)
onlyAllowedChars(username) ==
    /\ Len(username) >= 1
    /\ \A i \in 1..Len(username) :
           username[i] \in AlnumChars \cup HyphenUnderscore

\* /^[A-Za-z0-9].*[A-Za-z0-9]$/.test(username)
alnumAtBothEnds(username) ==
    /\ Len(username) >= 2
    /\ username[1] \in AlnumChars
    /\ username[Len(username)] \in AlnumChars

\* /([^A-Za-z0-9])\1/.test(username)
repeatedSpecialChar(username) ==
    \E i \in 1..(Len(username) - 1) :
        /\ username[i] \notin AlnumChars
        /\ username[i + 1] = username[i]

\* username.toLowerCase()
toLowerCaseChars(username) ==
    [i \in 1..Len(username) |-> IF username[i] = "A" THEN "a" ELSE username[i]]

\* the entries of the reserved list that Chars can spell
reserved == { <<"a", "p", "i">> }

UsernameInvalid(error) == [isValid |-> FALSE, error |-> error]

\* validateUsernameDetailed(username)
validateUsernameDetailed(username) ==
    IF trimIsEmpty(username)
    THEN UsernameInvalid("Username is required")
    ELSE IF Len(username) < 3 \/ Len(username) > 30
    THEN UsernameInvalid("Username must be 3-30 characters long")
    ELSE IF includesAtSign(username) /\ ~onlyAllowedChars(username)
    THEN UsernameInvalid(
           "Username can only contain letters, numbers, hyphens, and underscores")
    ELSE IF ~includesAtSign(username) /\ ~alnumAtBothEnds(username)
    THEN UsernameInvalid("Username cannot start or end with special characters")
    ELSE IF repeatedSpecialChar(username)
    THEN UsernameInvalid("Username cannot contain consecutive special characters")
    ELSE IF toLowerCaseChars(username) \in reserved
    THEN UsernameInvalid("This username is not available")
    ELSE [isValid |-> TRUE, error |-> "undefined"]

\* isUsernameValid(username)
isUsernameValid(username) == validateUsernameDetailed(username).isValid

----------------------------------------------------------------------------
(* State *)

VARIABLES
    now,                    \* Math.floor(Date.now() / 1000)
    issued,                 \* every token the server has signed
    globalLogoutWatermark,  \* 0 while absent
    cookie,                 \* the session cookie of the last response
    last,                   \* the call made at this instant: arguments, result
    user_roles,             \* rows of the user_roles table
    users,                  \* ids of the rows of the users table
    del,                    \* the DELETE /api/admin/users request in progress
    last_login,             \* users.last_login by user id, 0 while never set
    put,                    \* the PUT /api/admin/users request in progress
    upd                     \* the updateUserRoles call in progress

vars ==
    <<now, issued, globalLogoutWatermark, cookie, last, user_roles, users, del,
      last_login, put, upd>>

storeVars == <<user_roles, users, del, last_login, put, upd>>

\* the tables the permission resolver reads
Db ==
    [ user_roles |-> user_roles,
      role_permissions |-> RolePermissionRows,
      permissions |-> PermissionRows ]

\* no request in progress
Idle == [pc |-> "idle"]

\* user 2 holds role 3
BaseUserRoles == { [user_id |-> 2, role_id |-> 3] }

\* last_login of every row before anyone has logged in
NeverLoggedIn == [u \in {1, 2, 3} |-> 0]

\* the cookie jar before any response has set or cleared it
NoCookie == [name |-> "id", value |-> NoToken, maxAge |-> -1]

\* session ids carried by signed tokens
UsedSessionIds == { t.payload.sessionId : t \in issued }

\* payloads an attacker writes without the key
ForgedPayloads ==
    { [ id |-> u.id, username |-> u.username, email |-> u.email,
        displayName |-> u.displayName, sessionId |-> 0, iat |-> 1,
        exp |-> e, lastActivity |-> 1,
        ipAddress |-> NoContext.ipAddress, userAgent |-> NoContext.userAgent ] :
      u \in {i \in Identities : i.id = 1},
      e \in {0, 3, MaxTime + SESSION_TIMEOUT} }

Forged ==
    { [kind |-> "jwt", payload |-> p, sig |-> Mac("attacker", p)] :
      p \in ForgedPayloads }

\* a signed token whose payload segment was edited, signature segment kept
Tampered ==
    { [t EXCEPT !.payload.exp = @ + SESSION_TIMEOUT] : t \in issued }

\* what a client can put in the cookie header
Presentable == issued \cup Forged \cup Tampered \cup {Malformed, NotJson}

Init ==
    /\ now = 1
    /\ issued = {}
    /\ globalLogoutWatermark = 0
    /\ cookie = NoCookie
    /\ last = [op |-> "init"]
    /\ user_roles = BaseUserRoles
    /\ users = {1, 2, 3}
    /\ del = Idle
    /\ last_login = NeverLoggedIn
    /\ put = Idle
    /\ upd = Idle

----------------------------------------------------------------------------
(* Actions of the session manager *)

Tick ==
    /\ now < MaxTime
    /\ now' = now + 1
    /\ last' = [op |-> "tick"]
    /\ UNCHANGED <<issued, globalLogoutWatermark, cookie>>
    /\ UNCHANGED storeVars

CreateSession ==
    \E a \in CreateArgs :
        LET userData == a.userData
            context == a.context
            timeoutSeconds == a.timeoutSeconds
            token == createSessionToken(userData, context, timeoutSeconds, now,
                                        generateSessionId(UsedSessionIds)) IN
        /\ Cardinality(issued) < MaxTokens
        /\ issued' = issued \cup {token}
        /\ last' = [op |-> "createSession", userData |-> userData,
                    context |-> context, timeoutSeconds |-> timeoutSeconds,
                    out |-> token]
        /\ UNCHANGED <<now, globalLogoutWatermark, cookie>>
        /\ UNCHANGED storeVars

\* verifySessionToken called on one of `tokens`
VerifySessionOf(tokens) ==
    \E token \in tokens :
        /\ last' = [op |-> "verifySession", token |-> token,
                    out |-> verifySessionToken(token, now)]
        /\ UNCHANGED <<now, issued, globalLogoutWatermark, cookie>>
        /\ UNCHANGED storeVars

VerifySession == VerifySessionOf(Presentable)

\* verifySessionToken called on a token the server signed
VerifyIssuedSession == VerifySessionOf(issued)

VerifySessionEdge ==
    \E token \in Presentable :
        /\ last' = [op |-> "verifySessionEdge", token |-> token,
                    out |-> verifySessionTokenEdge(token, now)]
        /\ UNCHANGED <<now, issued, globalLogoutWatermark, cookie>>
        /\ UNCHANGED storeVars

\* renewSessionToken called on one of `tokens` while the server has signed
\* at most `bound` tokens
RenewSessionOf(tokens, bound) ==
    \E token \in tokens :
        LET out == renewSessionToken(token, now)
            signs == renewSigns(token, now) IN
        /\ signs => Cardinality(issued \cup {out}) <= bound
        /\ issued' = IF signs THEN issued \cup {out} ELSE issued
        /\ last' = [op |-> "renewSession", token |-> token,
                    out |-> out, signed |-> signs]
        /\ UNCHANGED <<now, globalLogoutWatermark, cookie>>
        /\ UNCHANGED storeVars

RenewSessionUpTo(bound) == RenewSessionOf(Presentable, bound)

RenewSession == RenewSessionUpTo(MaxTokens)

RenewSessionInChain == RenewSessionUpTo(MaxChainTokens)

\* renewSessionToken called on a token the server signed
RenewIssuedSession == RenewSessionOf(issued, MaxChainTokens)

\* regenerateSession called on one of `tokens`
RegenerateSessionOf(tokens) ==
    \E token \in tokens :
        LET out == regenerateSession(token, now,
                                     generateSessionId(UsedSessionIds)) IN
        /\ out # NoToken => Cardinality(issued \cup {out}) <= MaxChainTokens
        /\ issued' = IF out # NoToken THEN issued \cup {out} ELSE issued
        /\ last' = [op |-> "regenerateSession", token |-> token,
                    out |-> out]
        /\ UNCHANGED <<now, globalLogoutWatermark, cookie>>
        /\ UNCHANGED storeVars

RegenerateSession == RegenerateSessionOf(Presentable)

\* regenerateSession called on a token the server signed
RegenerateIssuedSession == RegenerateSessionOf(issued)

\* POST /api/logout
LogoutPOST ==
    /\ globalLogoutWatermark' = setGlobalLogoutTimestamp(now)
    /\ cookie' = clearSessionCookie
    /\ last' = [op |-> "logout"]
    /\ UNCHANGED <<now, issued>>
    /\ UNCHANGED storeVars

\* createSessionToken called for one user, with the default timeout or
\* with one that lets the session live until it needs renewal
CreateSessionInChain ==
    \E userData \in {i \in Identities : i.id = 1},
       context \in Contexts \ {NoContext},
       timeoutSeconds \in {LongTimeout, SESSION_TIMEOUT} :
        LET token == createSessionToken(userData, context, timeoutSeconds, now,
                                        generateSessionId(UsedSessionIds)) IN
        /\ Cardinality(issued) < MaxTokens
        /\ issued' = issued \cup {token}
        /\ last' = [op |-> "createSession", userData |-> userData,
                    context |-> context, timeoutSeconds |-> timeoutSeconds,
                    out |-> token]
        /\ UNCHANGED <<now, globalLogoutWatermark, cookie>>
        /\ UNCHANGED storeVars

\* the session manager on its own
Next ==
    \/ Tick
    \/ CreateSession
    \/ VerifySession
    \/ VerifySessionEdge
    \/ RenewSession

Spec == Init /\ [][Next]_vars

\* sessions created, renewed and regenerated
NextChain ==
    \/ Tick
    \/ CreateSessionInChain
    \/ RenewSessionInChain
    \/ RegenerateSession

SpecChain == Init /\ [][NextChain]_vars

\* sessions and the logout route
NextLogout ==
    \/ Tick
    \/ CreateSession
    \/ VerifySession
    \/ LogoutPOST

SpecLogout == Init /\ [][NextLogout]_vars

\* sessions renewed, regenerated, logged out and verified again
NextRevoke ==
    \/ Tick
    \/ CreateSessionInChain
    \/ RenewIssuedSession
    \/ RegenerateIssuedSession
    \/ LogoutPOST
    \/ VerifyIssuedSession

SpecRevoke == Init /\ [][NextRevoke]_vars

----------------------------------------------------------------------------
(* Authorization gate called on its own *)

\* two sessions exist: every call of CreateArgs was made at clock 1
SignedAtStart ==
    { createSessionToken(a.userData, a.context, a.timeoutSeconds, 1, a.userData.id) :
      a \in CreateArgs }

\* user 1 holds any set of roles
InitGate ==
    /\ now = 1
    /\ issued = SignedAtStart
    /\ globalLogoutWatermark = 0
    /\ cookie = NoCookie
    /\ last = [op |-> "init"]
    /\ \E held \in SUBSET RoleIds :
           user_roles = BaseUserRoles
                        \cup { [user_id |-> 1, role_id |-> r] : r \in held }
    /\ users = {1, 2, 3}
    /\ del = Idle
    /\ last_login = NeverLoggedIn
    /\ put = Idle
    /\ upd = Idle

AllowedRoleSets ==
    { {"admin"}, {"manager"}, {"user"}, {"admin", "manager"}, {}, {"auditor"} }

PermissionNames == { "admin_access", "manage_users", "edit_profile", "delete_all" }

ErrorTypes ==
    { "unauthenticated", "unauthorized", "server_error", "invalid_type",
      "constructor" }

\* A call of the gate changes nothing but `last`, so the calls that follow
\* the first one at an instant reach no state the first does not reach: the
\* model records one call per instant.
NoCallYet == last.op \in {"init", "tick"}

RequireRole ==
    \E allowedRoles \in AllowedRoleSets, token \in Presentable \cup {NoToken},
       fault \in Faults :
        /\ NoCallYet
        /\ last' = [op |-> "requireRole", allowedRoles |-> allowedRoles,
                    token |-> token, fault |-> fault,
                    out |-> requireRole(allowedRoles, token, now, Db, fault)]
        /\ UNCHANGED <<now, issued, globalLogoutWatermark, cookie>>
        /\ UNCHANGED storeVars

RequirePermission ==
    \E requiredPermission \in PermissionNames, token \in Presentable \cup {NoToken},
       fault \in Faults :
        /\ NoCallYet
        /\ last' = [op |-> "requirePermission",
                    requiredPermission |-> requiredPermission,
                    token |-> token, fault |-> fault,
                    out |-> requirePermission(requiredPermission, token, now,
                                              Db, fault)]
        /\ UNCHANGED <<now, issued, globalLogoutWatermark, cookie>>
        /\ UNCHANGED storeVars

HandleAuthorizationError ==
    \E errorType \in ErrorTypes :
        /\ NoCallYet
        /\ last' = [op |-> "handleAuthorizationError", errorType |-> errorType,
                    out |-> handleAuthorizationError(errorType)]
        /\ UNCHANGED <<now, issued, globalLogoutWatermark, cookie>>
        /\ UNCHANGED storeVars

NextGate ==
    \/ Tick
    \/ RequireRole
    \/ RequirePermission
    \/ HandleAuthorizationError

SpecGate == InitGate /\ [][NextGate]_vars

----------------------------------------------------------------------------
(* DELETE /api/admin/users: src/unnamed/part_002, lines 286-349.           *)
(* The handler awaits each layer; the model takes one step per gate call   *)
(* and one for the rest of the handler, so the clock can advance between   *)
(* the layers. The gate is handed the token of the request's "id" cookie.  *)

\* Number.NaN
NaN == -1

\* the userId query parameter: absent (or empty), or a text that starts with
\* the decimal digits of `lead` (none when lead = NaN), followed by other
\* characters when `junk`
TargetParams ==
    { [present |-> FALSE, lead |-> NaN, junk |-> FALSE] }
    \cup { [present |-> TRUE, lead |-> n, junk |-> FALSE] : n \in {1, 2, 3, 9} }
    \cup { [present |-> TRUE, lead |-> 1, junk |-> TRUE],
           [present |-> TRUE, lead |-> NaN, junk |-> TRUE] }

\* parseInt(text): the leading digits, NaN when there are none
parseInt(text) == text.lead

\* a === b on numbers: NaN equals nothing
StrictEquals(a, b) == a # NaN /\ b # NaN /\ a = b

\* .from("users").select("id, username").eq("id", userId).single(): the
\* row whose integer id the text denotes; a text that is no integer, or
\* that matches no row, comes back as an error
fetchTargetUser(userId, rows, fetchError) ==
    IF fetchError \/ userId.junk \/ userId.lead = NaN \/ userId.lead \notin rows
    THEN [found |-> FALSE, id |-> NaN]
    ELSE [found |-> TRUE, id |-> userId.lead]

\* the rest of DELETE without the self-deletion rule
deleteBody_noSelfRule(user, userId, rows, fetchError, deleteError) ==
    IF ~userId.present
    THEN [response |-> [status |-> 400, error |-> "User ID is required"],
          layers |-> <<"userId">>, rows |-> rows, reads |-> 0, writes |-> 0]
    ELSE
        LET targetUser == fetchTargetUser(userId, rows, fetchError) IN
        IF ~targetUser.found
        THEN [response |-> [status |-> 404, error |-> "User not found"],
              layers |-> <<"userId", "self", "exists">>, rows |-> rows,
              reads |-> 1, writes |-> 0]
        ELSE IF deleteError
        THEN [response |-> [status |-> 500, error |-> "Failed to delete user"],
              layers |-> <<"userId", "self", "exists", "delete">>, rows |-> rows,
              reads |-> 1, writes |-> 1]
        ELSE [response |-> [status |-> 200, error |-> "none"],
              layers |-> <<"userId", "self", "exists", "delete">>,
              rows |-> rows \ {targetUser.id}, reads |-> 1, writes |-> 1]

\* what DELETE does once both gate layers have passed: the response, the
\* layers it went through, the rows left, reads and writes of the users table
deleteBody(user, userId, rows, fetchError, deleteError) ==
    IF ~userId.present
    THEN [response |-> [status |-> 400, error |-> "User ID is required"],
          layers |-> <<"userId">>, rows |-> rows, reads |-> 0, writes |-> 0]
    ELSE IF StrictEquals(parseInt(userId), user.id)
    THEN [response |-> [status |-> 403, error |-> "Cannot delete your own account"],
          layers |-> <<"userId", "self">>, rows |-> rows,
          reads |-> 0, writes |-> 0]
    ELSE
        LET targetUser == fetchTargetUser(userId, rows, fetchError) IN
        IF ~targetUser.found
        THEN [response |-> [status |-> 404, error |-> "User not found"],
              layers |-> <<"userId", "self", "exists">>, rows |-> rows,
              reads |-> 1, writes |-> 0]
        ELSE IF deleteError
        THEN [response |-> [status |-> 500, error |-> "Failed to delete user"],
              layers |-> <<"userId", "self", "exists", "delete">>, rows |-> rows,
              reads |-> 1, writes |-> 1]
        ELSE [response |-> [status |-> 200, error |-> "none"],
              layers |-> <<"userId", "self", "exists", "delete">>,
              rows |-> rows \ {targetUser.id}, reads |-> 1, writes |-> 1]

\* a gate layer that has not been called
NotCalled == [called |-> FALSE]

\* Layer 1 that goes on to layer 2 whatever the role check answers
DeleteRoleCheck_goesOn ==
    \E token \in Presentable \cup {NoToken}, userId \in TargetParams,
       fault \in Faults :
        LET check == withRoleAuthorization(token, {"admin"}, now, Db, fault) IN
        /\ del.pc = "idle"
        /\ del' = [ pc |-> "permission",
                    token |-> token, userId |-> userId,
                    role |-> check, perm |-> NotCalled,
                    layers |-> <<"role">>,
                    response |-> check.error,
                    reads |-> 0, writes |-> 0,
                    rowsBefore |-> users ]
        /\ UNCHANGED <<now, issued, globalLogoutWatermark, cookie, last>>
        /\ UNCHANGED <<user_roles, users, last_login, put, upd>>

\* Layer 1: withRoleAuthorization(['admin'])
DeleteRoleCheck ==
    \E token \in Presentable \cup {NoToken}, userId \in TargetParams,
       fault \in Faults :
        LET check == withRoleAuthorization(token, {"admin"}, now, Db, fault) IN
        /\ del.pc = "idle"
        /\ del' = [ pc |-> IF check.error = NoError THEN "permission" ELSE "done",
                    token |-> token, userId |-> userId,
                    role |-> check, perm |-> NotCalled,
                    layers |-> <<"role">>,
                    response |-> check.error,
                    reads |-> 0, writes |-> 0,
                    rowsBefore |-> users ]
        /\ UNCHANGED <<now, issued, globalLogoutWatermark, cookie, last>>
        /\ UNCHANGED <<user_roles, users, last_login, put, upd>>

\* Layer 2: withPermissionAuthorization('manage_users')
DeletePermissionCheck ==
    \E fault \in Faults :
        LET check == withPermissionAuthorization(del.token, "manage_users", now,
                                                 Db, fault) IN
        /\ del.pc = "permission"
        /\ del' = [del EXCEPT
                    !.pc = IF check.error = NoError THEN "body" ELSE "done",
                    !.perm = check,
                    !.layers = Append(@, "permission"),
                    !.response = check.error]
        /\ UNCHANGED <<now, issued, globalLogoutWatermark, cookie, last>>
        /\ UNCHANGED <<user_roles, users, last_login, put, upd>>

\* Layers 3 and 4 and the deletion; user_roles rows go with the user row
\* (foreign key cascade)
DeleteBody ==
    \E fetchError \in BOOLEAN, deleteError \in BOOLEAN :
        LET body == deleteBody(del.role.user, del.userId, users, fetchError,
                               deleteError) IN
        /\ del.pc = "body"
        /\ del' = [del EXCEPT
                    !.pc = "done",
                    !.layers = @ \o body.layers,
                    !.response = body.response,
                    !.reads = body.reads,
                    !.writes = body.writes]
        /\ users' = body.rows
        /\ user_roles' = { r \in user_roles : r.user_id \in body.rows }
        /\ UNCHANGED <<now, issued, globalLogoutWatermark, cookie, last>>
        /\ UNCHANGED <<last_login, put, upd>>

\* the response is returned; the next request can come
DeleteReturn ==
    /\ del.pc = "done"
    /\ del' = Idle
    /\ UNCHANGED <<now, issued, globalLogoutWatermark, cookie, last>>
    /\ UNCHANGED <<user_roles, users, last_login, put, upd>>

NextDelete ==
    \/ Tick
    \/ DeleteRoleCheck
    \/ DeletePermissionCheck
    \/ DeleteBody
    \/ DeleteReturn

SpecDelete == InitGate /\ [][NextDelete]_vars

----------------------------------------------------------------------------
(* Credential verifier: src/unnamed/part_015, lines 1-40 *)

\* milliseconds
MIN_VERIFICATION_DURATION == 100

\* a value of the JSON request body or of a column: a string, a number, or
\* undefined / null
Str(text) == [type |-> "string", text |-> text]
Num(text) == [type |-> "number", text |-> text]
Undefined == [type |-> "undefined", text |-> ""]

\* !value: undefined, null and "" are falsy (the numbers used are not 0)
Falsy(value) ==
    value.type = "undefined" \/ (value.type = "string" /\ value.text = "")

\* the bcrypt hash string of a password text
bcryptHash(text) == [type |-> "string", text |-> "$2b$12$", of |-> text]

\* "a real bcrypt hash of PasswordTest123"
DUMMY_HASH == bcryptHash("PasswordTest123")

\* a stored string that is not a bcrypt hash
NotAHash == [type |-> "string", text |-> "plain", of |-> "none"]

\* a null or empty password_hash
NullHash == [type |-> "undefined", text |-> "", of |-> "none"]
EmptyHash == [type |-> "string", text |-> "", of |-> "none"]

\* bcrypt.compare(s, hash): rejects unless both arguments are strings,
\* resolves false on a string that is no bcrypt hash, else tells whether the
\* hash is the hash of s
compare(s, hash) ==
    IF s.type # "string" \/ hash.type # "string"
    THEN [threw |-> TRUE, isValid |-> FALSE]
    ELSE IF hash.text # "$2b$12$"
    THEN [threw |-> FALSE, isValid |-> FALSE]
    ELSE [threw |-> FALSE, isValid |-> (hash.of = s.text)]

\* ensureMinVerificationDuration(start): the time since start at which it
\* returns, given the time `elapsed` since start at which it is called
ensureMinVerificationDuration(elapsed) ==
    IF elapsed < MIN_VERIFICATION_DURATION
    THEN elapsed + (MIN_VERIFICATION_DURATION - elapsed)
    ELSE elapsed

\* verifyPassword that returns what the comparison reports
verifyPassword_reportsComparison(password, hash, elapsed) ==
    LET hashToCompare == IF Falsy(hash) THEN DUMMY_HASH ELSE hash
        c == compare(password, hashToCompare)
    IN
    [ result |-> IF c.threw THEN FALSE ELSE c.isValid,
      threw |-> FALSE,
      comparisons |-> 1,
      hashToCompare |-> hashToCompare,
      duration |-> ensureMinVerificationDuration(elapsed) ]

\* verifyPassword(password, hash); the comparison takes `elapsed` ms
verifyPassword(password, hash, elapsed) ==
    LET hashToCompare == IF Falsy(hash) THEN DUMMY_HASH ELSE hash
        c == compare(password, hashToCompare)
    IN
    [ result |-> IF c.threw THEN FALSE
                 ELSE IF Falsy(hash) THEN FALSE ELSE c.isValid,
      threw |-> FALSE,
      comparisons |-> 1,
      hashToCompare |-> hashToCompare,
      duration |-> ensureMinVerificationDuration(elapsed) ]

----------------------------------------------------------------------------
(* POST /api/login: src/unnamed/part_004, lines 145-211 *)

\* rows of the users table by id; carol has no display_name. The ids are
\* written into the token as decimal text, which the database and parseInt
\* read back as the same integer: the model keeps the integer.
UserRows ==
    [ u \in {1, 2, 3} |->
        CASE u = 1 -> [ id |-> 1, username |-> "alice", email |-> "alice@x",
                        display_name |-> Str("Alice"),
                        password_hash |-> bcryptHash("alicepw") ]
          [] u = 2 -> [ id |-> 2, username |-> "bob", email |-> "bob@x",
                        display_name |-> Str("Bob"),
                        password_hash |-> bcryptHash("bobpw") ]
          [] u = 3 -> [ id |-> 3, username |-> "carol", email |-> "carol@x",
                        display_name |-> Undefined,
                        password_hash |-> bcryptHash("carolpw") ] ]

\* String.prototype.toLowerCase on the texts of the model
toLowerCase(text) ==
    CASE text = "ALICE" -> "alice"
      [] text = "ALICE@X" -> "alice@x"
      [] OTHER -> text

\* text.includes("@")
includesAt(text) == text \in {"alice@x", "ALICE@X", "nobody@x"}

\* username ILIKE pattern: case-insensitive, % matches any text
ilike(value, pattern) ==
    pattern = "%" \/ toLowerCase(value) = toLowerCase(pattern)

\* the usernameOrEmail and password members of the request body
UsernameOrEmails ==
    { Undefined, Str("ALICE"), Str("ALICE@X"), Str("carol"), Str("nobody"),
      Str("nobody@x"), Str("%"), Num("7") }

LoginPasswords ==
    { Str(""), Str("alicepw"), Str("carolpw"), Num("12345") }

\* the query of the handler followed by maybeSingle(): no row gives null
\* data, one row gives the row, several rows or a failed query give an error
lookupUser(usernameOrEmail, rows, lookupError) ==
    LET matching ==
            IF includesAt(usernameOrEmail.text)
            THEN { u \in rows :
                     UserRows[u].email = toLowerCase(usernameOrEmail.text) }
            ELSE { u \in rows :
                     ilike(UserRows[u].username, usernameOrEmail.text) }
    IN
    IF lookupError \/ Cardinality(matching) > 1
    THEN [error |-> TRUE, data |-> NoData]
    ELSE IF matching = {}
    THEN [error |-> FALSE, data |-> NoData]
    ELSE [error |-> FALSE, data |-> UserRows[CHOOSE u \in matching : TRUE]]

\* no Set-Cookie header on the response
NoSetCookie == [name |-> "none"]

\* setSessionCookie(response, token): maxAge defaults to SESSION_TIMEOUT
setSessionCookie(token) ==
    [name |-> "id", value |-> token, maxAge |-> SESSION_TIMEOUT]

\* what a login request that ends without a session leaves behind
loginRefused(status, error, user, comparisons) ==
    [ response |-> [status |-> status, error |-> error],
      user |-> user, comparisons |-> comparisons, floor |-> FALSE,
      passwordMatch |-> FALSE, update |-> FALSE,
      token |-> NoToken, setCookie |-> NoSetCookie ]

\* POST that lets every password open the account of user 1
loginPOST_anyPassword(body, rows, lookupError, t, sid) ==
    IF Falsy(body.usernameOrEmail) \/ Falsy(body.password)
    THEN loginRefused(400, "Username/email and password are required",
                      NoData, 0)
    ELSE IF body.usernameOrEmail.type # "string"
    THEN loginRefused(500, "Internal Server Error", NoData, 0)
    ELSE
        LET q == lookupUser(body.usernameOrEmail, rows, lookupError) IN
        IF q.error \/ q.data = NoData
        THEN loginRefused(401, "Invalid username/email or password", NoData, 0)
        ELSE
            LET user == q.data
                passwordMatch == compare(body.password, user.password_hash)
                sessionToken ==
                    createSessionToken(
                        [ id |-> user.id,
                          username |-> user.username,
                          email |-> user.email,
                          displayName |->
                              IF Falsy(user.display_name) THEN user.username
                              ELSE user.display_name.text ],
                        NoContext, SESSION_TIMEOUT, t, sid)
            IN
            IF passwordMatch.threw
            THEN loginRefused(500, "Internal Server Error", user, 1)
            ELSE IF ~passwordMatch.isValid /\ user.id # 1
            THEN loginRefused(401, "Invalid username/email or password",
                              user, 1)
            ELSE [ response |-> [status |-> 200, error |-> "none"],
                   user |-> user, comparisons |-> 1, floor |-> FALSE,
                   passwordMatch |-> TRUE, update |-> TRUE,
                   token |-> sessionToken,
                   setCookie |-> setSessionCookie(sessionToken) ]

\* POST at clock t: the response, the user row found, the number of hash
\* comparisons made, whether a minimum-duration floor was applied, whether
\* the last_login update was sent, the token signed and the cookie set. An
\* exception that leaves the handler is answered 500 by the framework.
loginPOST(body, rows, lookupError, t, sid) ==
    IF Falsy(body.usernameOrEmail) \/ Falsy(body.password)
    THEN loginRefused(400, "Username/email and password are required",
                      NoData, 0)
    ELSE IF body.usernameOrEmail.type # "string"
    THEN loginRefused(500, "Internal Server Error", NoData, 0)
    ELSE
        LET q == lookupUser(body.usernameOrEmail, rows, lookupError) IN
        IF q.error \/ q.data = NoData
        THEN loginRefused(401, "Invalid username/email or password", NoData, 0)
        ELSE
            LET user == q.data
                passwordMatch == compare(body.password, user.password_hash)
                sessionToken ==
                    createSessionToken(
                        [ id |-> user.id,
                          username |-> user.username,
                          email |-> user.email,
                          displayName |->
                              IF Falsy(user.display_name) THEN user.username
                              ELSE user.display_name.text ],
                        NoContext, SESSION_TIMEOUT, t, sid)
            IN
            IF passwordMatch.threw
            THEN loginRefused(500, "Internal Server Error", user, 1)
            ELSE IF ~passwordMatch.isValid
            THEN loginRefused(401, "Invalid username/email or password",
                              user, 1)
            ELSE [ response |-> [status |-> 200, error |-> "none"],
                   user |-> user, comparisons |-> 1, floor |-> FALSE,
                   passwordMatch |-> TRUE, update |-> TRUE,
                   token |-> sessionToken,
                   setCookie |-> setSessionCookie(sessionToken) ]

\* durations of the hash comparison, in ms
Elapsed == {0, 40, 100, 250}

\* hashes handed to verifyPassword
StoredHashes ==
    { NullHash, EmptyHash, NotAHash, bcryptHash("alicepw"), DUMMY_HASH }

\* passwords handed to verifyPassword
VerifierPasswords ==
    { Str("alicepw"), Str("wrong"), Str("PasswordTest123"), Str(""),
      Num("12345") }

VerifyPassword ==
    \E password \in VerifierPasswords, hash \in StoredHashes,
       elapsed \in Elapsed :
        /\ NoCallYet
        /\ last' = [op |-> "verifyPassword", password |-> password,
                    hash |-> hash, elapsed |-> elapsed,
                    out |-> verifyPassword(password, hash, elapsed)]
        /\ UNCHANGED <<now, issued, globalLogoutWatermark, cookie>>
        /\ UNCHANGED storeVars

\* POST /api/login; the last_login update can fail, which the handler
\* does not look at. A failing lookup or update is drawn only for the
\* requests that reach it. The model takes one login request per clock
\* value; the requests of earlier clock values have left their tokens, cookie
\* and last_login behind.
LoginPOST ==
    \E usernameOrEmail \in UsernameOrEmails, password \in LoginPasswords,
       lookupError \in BOOLEAN, updateError \in BOOLEAN :
        LET body == [usernameOrEmail |-> usernameOrEmail,
                     password |-> password]
            out == loginPOST(body, users, lookupError, now,
                             generateSessionId(UsedSessionIds))
        IN
        /\ NoCallYet
        /\ out.token # NoToken => Cardinality(issued \cup {out.token}) <= MaxTokens
        /\ updateError => out.update
        /\ lookupError => ( ~Falsy(usernameOrEmail) /\ ~Falsy(password)
                            /\ usernameOrEmail.type = "string" )
        /\ issued' = IF out.token # NoToken THEN issued \cup {out.token}
                     ELSE issued
        /\ cookie' = IF out.setCookie # NoSetCookie THEN out.setCookie
                     ELSE cookie
        /\ last_login' = IF out.update /\ ~updateError
                         THEN [last_login EXCEPT ![out.user.id] = now]
                         ELSE last_login
        /\ last' = [op |-> "login", body |-> body,
                    lookupError |-> lookupError, out |-> out,
                    before |-> [issued |-> issued, cookie |-> cookie,
                                last_login |-> last_login]]
        /\ UNCHANGED <<now, globalLogoutWatermark, user_roles, users, del, put,
                       upd>>

NextLogin ==
    \/ Tick
    \/ LoginPOST
    \/ VerifyPassword

SpecLogin == Init /\ [][NextLogin]_vars

----------------------------------------------------------------------------
(* Admission filter: src/src/lib/validation/username.ts, lines 144-218 *)

protectedRoutes == {"/admin", "/dashboard", "/profile", "/users"}

\* request.nextUrl.pathname
Pathnames ==
    { "/admin/users", "/administrator", "/dashboard", "/profile/edit",
      "/login", "/api/admin/users", "/" }

\* pathname.startsWith(route) on the texts of the model
startsWith(pathname, route) ==
    <<pathname, route>> \in
        { <<"/admin/users", "/admin">>, <<"/administrator", "/admin">>,
          <<"/dashboard", "/dashboard">>, <<"/profile/edit", "/profile">> }

isProtectedRoute(pathname) ==
    \E route \in protectedRoutes : startsWith(pathname, route)

\* NextResponse.next()
ResponseNext == [kind |-> "next", location |-> "none", setCookie |-> NoSetCookie]

\* NextResponse.redirect(new URL("/login", request.url))
ResponseRedirect(setCookie) ==
    [kind |-> "redirect", location |-> "/login", setCookie |-> setCookie]

\* middleware that redirects on a failed check and leaves the cookie
middleware_keepsCookie(pathname, token, t) ==
    IF ~isProtectedRoute(pathname) THEN ResponseNext
    ELSE IF token = NoToken THEN ResponseRedirect(NoSetCookie)
    ELSE
        LET result == verifySessionTokenEdge(token, t) IN
        IF ~result.valid
        THEN ResponseRedirect(NoSetCookie)
        ELSE IF result.needsRenewal /\ renewSessionToken(token, t) # NoToken
        THEN [ResponseNext EXCEPT
                !.setCookie = setSessionCookie(renewSessionToken(token, t))]
        ELSE ResponseNext

\* middleware that lets a stale session through as it is
middleware_noRenewal(pathname, token, t) ==
    IF ~isProtectedRoute(pathname) THEN ResponseNext
    ELSE IF token = NoToken THEN ResponseRedirect(NoSetCookie)
    ELSE
        LET result == verifySessionTokenEdge(token, t) IN
        IF ~result.valid
        THEN ResponseRedirect(clearSessionCookie)
        ELSE ResponseNext

\* middleware(request) at clock t; `token` is the value of the "id" cookie,
\* NoToken when the cookie is absent or empty
middleware(pathname, token, t) ==
    IF ~isProtectedRoute(pathname) THEN ResponseNext
    ELSE IF token = NoToken THEN ResponseRedirect(NoSetCookie)
    ELSE
        LET result == verifySessionTokenEdge(token, t) IN
        IF ~result.valid
        THEN ResponseRedirect(clearSessionCookie)
        ELSE IF result.needsRenewal /\ renewSessionToken(token, t) # NoToken
        THEN [ResponseNext EXCEPT
                !.setCookie = setSessionCookie(renewSessionToken(token, t))]
        ELSE ResponseNext

\* a request passes the filter; a renewed token is one more signed token.
\* The model takes one filtered request per clock value.
Middleware ==
    /\ last.op # "middleware"
    /\ \E pathname \in Pathnames, token \in Presentable \cup {NoToken} :
        LET out == middleware(pathname, token, now)
            renewed == out.kind = "next" /\ out.setCookie # NoSetCookie
        IN
        /\ renewed => Cardinality(issued \cup {out.setCookie.value}) <= MaxTokens
        /\ issued' = IF renewed THEN issued \cup {out.setCookie.value}
                     ELSE issued
        /\ cookie' = IF out.setCookie # NoSetCookie THEN out.setCookie
                     ELSE cookie
        /\ last' = [op |-> "middleware", pathname |-> pathname,
                    token |-> token, out |-> out,
                    before |-> [cookie |-> cookie, issued |-> issued]]
        /\ UNCHANGED <<now, globalLogoutWatermark>>
        /\ UNCHANGED storeVars

NextFilter ==
    \/ Tick
    \/ CreateSession
    \/ Middleware

SpecFilter == Init /\ [][NextFilter]_vars

----------------------------------------------------------------------------
(* Permission resolver called on tables of every content *)

\* contents of the user_roles table
ResolverUserRoles ==
    SUBSET { [user_id |-> 1, role_id |-> 1], [user_id |-> 1, role_id |-> 2],
             [user_id |-> 2, role_id |-> 1] }

\* contents of the role_permissions table
ResolverRolePermissions ==
    SUBSET { [role_id |-> r, permission_id |-> p] : r \in {1, 2}, p \in {1, 2, 3} }

\* contents of the permissions table; two rows bear the same name
ResolverPermissions ==
    SUBSET { [id |-> 1, name |-> "admin_access"],
             [id |-> 2, name |-> "manage_users"],
             [id |-> 3, name |-> "manage_users"] }

ResolverDbs ==
    [ user_roles : ResolverUserRoles,
      role_permissions : ResolverRolePermissions,
      permissions : ResolverPermissions ]

GetUserPermissions ==
    /\ NoCallYet
    /\ \E db \in ResolverDbs, userId \in {1, 2, 3} :
        /\ last' = [op |-> "getUserPermissions", userId |-> userId, db |-> db,
                    out |-> getUserPermissions(userId, db, "none")]
        /\ UNCHANGED <<now, issued, globalLogoutWatermark, cookie>>
        /\ UNCHANGED storeVars

UserHasPermission ==
    /\ NoCallYet
    /\ \E db \in ResolverDbs, userId \in {1, 2},
          requiredPermission \in {"admin_access", "manage_users"} :
        /\ last' = [op |-> "userHasPermission", userId |-> userId, db |-> db,
                    requiredPermission |-> requiredPermission,
                    out |-> userHasPermission(userId, requiredPermission, db,
                                              "none")]
        /\ UNCHANGED <<now, issued, globalLogoutWatermark, cookie>>
        /\ UNCHANGED storeVars

NextResolver ==
    \/ GetUserPermissions
    \/ UserHasPermission

SpecResolver == Init /\ [][NextResolver]_vars

----------------------------------------------------------------------------
(* Admin routes: GET /api/admin/roles (src/src/app/api/admin/roles/        *)
(* route.ts), GET and PUT /api/admin/users (src/unnamed/part_002, lines    *)
(* 76-283), validateEmailUniqueness (src/unnamed/part_014) and             *)
(* updateUserRoles (src/src/lib/roles/roleManagement.ts).                  *)

\* NextResponse.json(body, { status }); error is "none" in a body without
\* an error member
Response(status, error) == [status |-> status, error |-> error]

\* what Next.js answers when a route handler throws
UnhandledError == Response(500, "Internal Server Error")

\* GET /api/admin/roles with the "id" cookie `token` at clock t. fault1 and
\* fault2 name the lookup that fails in the first and in the second
\* userHasPermission call; a throw leaves the handler. A failed roles query
\* is answered with an empty list.
rolesGET(token, t, db, fault1, fault2, rolesError) ==
    IF token = NoToken
    THEN [response |-> Response(401, "Unauthorized"), threw |-> FALSE, reads |-> 0]
    ELSE
        LET user == getUserFromSession(token, t) IN
        IF user = NoData
        THEN [response |-> Response(401, "Unauthorized"), threw |-> FALSE,
              reads |-> 0]
        ELSE
            LET hasAdminPermission ==
                    userHasPermission(user.id, "admin_access", db, fault1)
                hasManagerPermission ==
                    userHasPermission(user.id, "manage_users", db, fault2)
            IN
            IF hasAdminPermission.threw
            THEN [response |-> UnhandledError, threw |-> TRUE, reads |-> 0]
            ELSE IF ~hasAdminPermission.has
            THEN [response |-> Response(403, "Forbidden"), threw |-> FALSE,
                  reads |-> 0]
            ELSE IF hasManagerPermission.threw
            THEN [response |-> UnhandledError, threw |-> TRUE, reads |-> 0]
            ELSE IF ~hasManagerPermission.has
            THEN [response |-> Response(403, "Forbidden"), threw |-> FALSE,
                  reads |-> 0]
            ELSE [response |-> Response(200, "none"), threw |-> FALSE,
                  reads |-> 1]

\* GET /api/admin/users that queries the users before it looks at the check
usersGET_readsFirst(token, t, db, fault, usersError) ==
    LET check == withRoleAuthorization(token, {"admin", "manager"}, t, db, fault)
    IN
    IF usersError
    THEN [gate |-> check, response |-> Response(500, "Failed to fetch users"),
          reads |-> 1]
    ELSE IF check.error # NoError
    THEN [gate |-> check, response |-> check.error, reads |-> 1]
    ELSE [gate |-> check, response |-> Response(200, "none"), reads |-> 1]

\* GET /api/admin/users; reads counts the queries on users and user_roles
\* the handler makes after the check
usersGET(token, t, db, fault, usersError) ==
    LET check == withRoleAuthorization(token, {"admin", "manager"}, t, db, fault)
    IN
    IF check.error # NoError
    THEN [gate |-> check, response |-> check.error, reads |-> 0]
    ELSE IF usersError
    THEN [gate |-> check, response |-> Response(500, "Failed to fetch users"),
          reads |-> 1]
    ELSE [gate |-> check, response |-> Response(200, "none"), reads |-> 1]

\* username and email columns of the users table, by id
AdminUserRow(u) ==
    CASE u = 1 -> [id |-> 1, username |-> <<"a", "a", "1">>, email |-> "alice@x.io"]
      [] u = 2 -> [id |-> 2, username |-> <<"p", "i", "p">>, email |-> "bob@x.io"]
      [] OTHER -> [id |-> u, username |-> <<"i", "i", "i">>, email |-> "carol@x.io"]

AdminUserRows(ids) == { AdminUserRow(u) : u \in ids }

\* email members of the PUT body; "" is an absent member
PutEmails == {"", "BOB@X.IO ", "new@x.io", "bob-at-x", "new..er@x.io"}

\* email.toLowerCase().trim() on the texts of the model
normalizeEmail(email) == IF email = "BOB@X.IO " THEN "bob@x.io" ELSE email

\* /\S+@\S+\.\S+/.test(normalizedEmail) on the texts of the model
emailFormatOK(normalizedEmail) ==
    normalizedEmail \in {"alice@x.io", "bob@x.io", "carol@x.io", "new@x.io",
                         "new..er@x.io"}

\* local?.includes("..") || domain?.includes("..")
hasConsecutiveDots(normalizedEmail) == normalizedEmail = "new..er@x.io"

\* validateEmailUniqueness(email, excludeUserId); no text of the model is
\* longer than 320 characters. reads counts its queries on users.
validateEmailUniqueness(email, excludeUserId, rows, dbError) ==
    LET normalizedEmail == normalizeEmail(email)
        data == { r \in rows :
                    /\ r.email = normalizedEmail
                    /\ excludeUserId # 0 => r.id # excludeUserId }
    IN
    IF normalizedEmail = "" \/ ~emailFormatOK(normalizedEmail)
    THEN [isUnique |-> FALSE, error |-> "Invalid email format", reads |-> 0]
    ELSE IF hasConsecutiveDots(normalizedEmail)
    THEN [isUnique |-> FALSE, error |-> "Invalid email format", reads |-> 0]
    ELSE IF dbError \/ Cardinality(data) > 1
    THEN [isUnique |-> FALSE,
          error |-> "Database error occurred while checking email uniqueness",
          reads |-> 1]
    ELSE IF data # {}
    THEN [isUnique |-> FALSE, error |-> "Email address is already registered",
          reads |-> 1]
    ELSE [isUnique |-> TRUE, error |-> "undefined", reads |-> 1]

\* value ILIKE pattern on character sequences: case-insensitive, and "_" in
\* the pattern matches any one character
ilikeChars(value, pattern) ==
    /\ Len(value) = Len(pattern)
    /\ \A i \in 1..Len(pattern) :
           \/ pattern[i] = "_"
           \/ toLowerCaseChars(value)[i] = toLowerCaseChars(pattern)[i]

\* the roleIds member of the PUT body: an array of role ids, or something
\* that is not an array (absent included)
NotAnArray == [isArray |-> FALSE, ids |-> {}]

RoleIdArray(ids) == [isArray |-> TRUE, ids |-> ids]

\* bodies of PUT /api/admin/users: userId 0 is an absent userId, 9 the id
\* of no row
PutBodies ==
    { [userId |-> u, username |-> <<>>, email |-> "", roleIds |-> RoleIdArray(ids)] :
        u \in {1, 2}, ids \in {{}, {1}, {2, 3}} }
    \cup
    { [userId |-> 2, username |-> n, email |-> "", roleIds |-> NotAnArray] :
        n \in { <<"a", "1", "a">>, <<"a", "!", "a">>, <<"-", "a", "a">>,
                <<"A", "_", "1">> } }
    \cup
    { [userId |-> 2, username |-> <<>>, email |-> m, roleIds |-> NotAnArray] :
        m \in PutEmails }
    \cup
    { [userId |-> u, username |-> <<>>, email |-> "", roleIds |-> RoleIdArray({1})] :
        u \in {0, 9} }

\* the statement of the PUT handler that reports a database error
PutErrors == {"none", "email", "username", "update", "delete"}

\* the role ids user userId holds in `roles`
heldRoles(userId, roles) == { r.role_id : r \in { x \in roles : x.user_id = userId } }

\* supabase.from("user_roles").delete().eq("user_id", userId)
deleteUserRoles(userId, roles) == { r \in roles : r.user_id # userId }

\* PUT /api/admin/users from req.json() to the delete of the old roles.
\* reads and writes count the statements on users and user_roles.
putBody(body, rows, roles, dbError) ==
    LET emailValidation ==
            validateEmailUniqueness(body.email, body.userId, rows, dbError = "email")
        usernameValidation == validateUsernameDetailed(body.username)
        existingUsername ==
            { r \in rows : ilikeChars(r.username, body.username) /\ r.id # body.userId }
        target == { r \in rows : r.id = body.userId }
        r1 == IF body.email # "" THEN emailValidation.reads ELSE 0
        r2 == r1 + (IF body.username # <<>> THEN 1 ELSE 0)
        returns(response, reads, writes) ==
            [pc |-> "done", response |-> response, reads |-> reads,
             writes |-> writes, user_roles |-> roles]
    IN
    IF body.userId = 0
    THEN returns(Response(400, "User ID is required"), 0, 0)
    ELSE IF body.email # "" /\ ~emailValidation.isUnique
    THEN returns(Response(400, emailValidation.error), r1, 0)
    ELSE IF body.username # <<>> /\ ~usernameValidation.isValid
    THEN returns(Response(400, usernameValidation.error), r1, 0)
    ELSE IF body.username # <<>>
            /\ (dbError = "username" \/ Cardinality(existingUsername) > 1)
    THEN returns(Response(500, "Database error (username check)"), r2, 0)
    ELSE IF body.username # <<>> /\ existingUsername # {}
    THEN returns(Response(400, "Username already exists"), r2, 0)
    ELSE IF dbError = "update" \/ target = {}
    THEN returns(Response(500, "Failed to update user"), r2, 1)
    ELSE IF ~body.roleIds.isArray
    THEN returns(Response(200, "none"), r2, 1)
    ELSE IF dbError = "delete"
    THEN returns(Response(500, "Failed to remove existing roles"), r2, 2)
    ELSE IF body.roleIds.ids = {}
    THEN [pc |-> "done", response |-> Response(200, "none"), reads |-> r2,
          writes |-> 2, user_roles |-> deleteUserRoles(body.userId, roles)]
    ELSE [pc |-> "insert", response |-> NoError, reads |-> r2,
          writes |-> 2, user_roles |-> deleteUserRoles(body.userId, roles)]

\* PUT /api/admin/users: the insert of the new roles and the response
putInsert(body, roles, insertError) ==
    IF insertError
    THEN [response |-> Response(500, "Failed to assign new roles"),
          user_roles |-> roles]
    ELSE [response |-> Response(200, "none"),
          user_roles |-> roles \cup { [user_id |-> body.userId, role_id |-> r] :
                                      r \in body.roleIds.ids }]

\* removeUserRoles(userId); the result of the statement is not looked at
removeUserRoles(userId, roles, error) ==
    IF error THEN roles ELSE deleteUserRoles(userId, roles)

\* assignUserRole(userId, roleId)
assignUserRole(userId, roleId, roles, error) ==
    IF error THEN roles
    ELSE roles \cup { [user_id |-> userId, role_id |-> roleId] }

\* the roleIds arguments of updateUserRoles
UpdRoleIds == { <<>>, <<1>>, <<2, 3>> }

\* what the admin routes are sent in the "id" cookie: nothing, a signed
\* token, or a forged one that has not expired
AdminTokens ==
    issued \cup {NoToken}
    \cup { f \in Forged : f.payload.exp = MaxTime + SESSION_TIMEOUT }

\* user 1 holds no role, role 1, role 2 or both; user 2 holds role 3
InitAdmin ==
    /\ now = 1
    /\ issued = SignedAtStart
    /\ globalLogoutWatermark = 0
    /\ cookie = NoCookie
    /\ last = [op |-> "init"]
    /\ \E held \in SUBSET {1, 2} :
           user_roles = BaseUserRoles
                        \cup { [user_id |-> 1, role_id |-> r] : r \in held }
    /\ users = {1, 2, 3}
    /\ del = Idle
    /\ last_login = NeverLoggedIn
    /\ put = Idle
    /\ upd = Idle

RolesGET ==
    /\ NoCallYet
    /\ \E token \in AdminTokens, fault1 \in Faults, fault2 \in Faults,
          rolesError \in BOOLEAN :
        /\ last' = [op |-> "rolesGET", token |-> token, fault1 |-> fault1,
                    fault2 |-> fault2,
                    out |-> rolesGET(token, now, Db, fault1, fault2, rolesError)]
        /\ UNCHANGED <<now, issued, globalLogoutWatermark, cookie>>
        /\ UNCHANGED storeVars

\* GET changes nothing: the model sends it between the requests that write
UsersGET ==
    /\ NoCallYet
    /\ put.pc = "idle"
    /\ upd.pc = "idle"
    /\ \E token \in AdminTokens, fault \in Faults, usersError \in BOOLEAN :
        /\ last' = [op |-> "usersGET", token |-> token, fault |-> fault,
                    out |-> usersGET(token, now, Db, fault, usersError)]
        /\ UNCHANGED <<now, issued, globalLogoutWatermark, cookie>>
        /\ UNCHANGED storeVars

\* no permission was read since the clock, the PUT request or the
\* updateUserRoles call last moved
NoReadYet == last.op \in {"init", "tick", "put", "upd"}

\* getUserPermissions called while a role replacement may be in progress
ReadPermissions ==
    /\ NoReadYet
    /\ \E userId \in {1, 2} :
        /\ last' = [op |-> "getUserPermissions", userId |-> userId,
                    fault |-> "none",
                    out |-> getUserPermissions(userId, Db, "none"),
                    held |-> heldRoles(userId, user_roles),
                    put |-> put, upd |-> upd]
        /\ UNCHANGED <<now, issued, globalLogoutWatermark, cookie>>
        /\ UNCHANGED storeVars

\* getUserPermissions called while one of its lookups may report an error
ReadPermissionsFaulty ==
    /\ NoCallYet
    /\ \E userId \in {1, 2}, fault \in Faults :
        /\ last' = [op |-> "getUserPermissions", userId |-> userId,
                    fault |-> fault,
                    out |-> getUserPermissions(userId, Db, fault),
                    held |-> heldRoles(userId, user_roles),
                    put |-> put, upd |-> upd]
        /\ UNCHANGED <<now, issued, globalLogoutWatermark, cookie>>
        /\ UNCHANGED storeVars

ReadHasPermission ==
    /\ NoCallYet
    /\ \E userId \in {1, 2}, fault \in Faults,
          requiredPermission \in {"admin_access", "edit_profile"} :
        /\ last' = [op |-> "userHasPermission", userId |-> userId,
                    fault |-> fault, requiredPermission |-> requiredPermission,
                    out |-> userHasPermission(userId, requiredPermission, Db,
                                              fault)]
        /\ UNCHANGED <<now, issued, globalLogoutWatermark, cookie>>
        /\ UNCHANGED storeVars

\* the PUT handler going on to the body whatever the check returned
PutGate_goesOn ==
    /\ put.pc = "idle"
    /\ upd.pc = "idle"
    /\ \E token \in AdminTokens, fault \in Faults :
        LET check == withRoleAuthorization(token, {"admin", "manager"}, now, Db,
                                           fault) IN
        /\ put' = [ pc |-> "body",
                    token |-> token, gate |-> check,
                    userId |-> 0, roleIds |-> NotAnArray,
                    response |-> check.error, reads |-> 0, writes |-> 0,
                    before |-> user_roles ]
        /\ last' = [op |-> "put"]
        /\ UNCHANGED <<now, issued, globalLogoutWatermark, cookie>>
        /\ UNCHANGED <<user_roles, users, del, last_login, upd>>

\* PUT /api/admin/users: withRoleAuthorization(['admin', 'manager'])
PutGate ==
    /\ put.pc = "idle"
    /\ upd.pc = "idle"
    /\ \E token \in AdminTokens, fault \in Faults :
        LET check == withRoleAuthorization(token, {"admin", "manager"}, now, Db,
                                           fault) IN
        /\ put' = [ pc |-> IF check.error = NoError THEN "body" ELSE "done",
                    token |-> token, gate |-> check,
                    userId |-> 0, roleIds |-> NotAnArray,
                    response |-> check.error, reads |-> 0, writes |-> 0,
                    before |-> user_roles ]
        /\ last' = [op |-> "put"]
        /\ UNCHANGED <<now, issued, globalLogoutWatermark, cookie>>
        /\ UNCHANGED <<user_roles, users, del, last_login, upd>>

\* PUT /api/admin/users: the body is read, validated, the users row updated
\* and the old roles deleted
PutBody ==
    /\ put.pc = "body"
    /\ \E body \in PutBodies, dbError \in PutErrors :
        LET out == putBody(body, AdminUserRows(users), user_roles, dbError) IN
        /\ put' = [put EXCEPT !.pc = out.pc,
                              !.userId = body.userId,
                              !.roleIds = body.roleIds,
                              !.response = out.response,
                              !.reads = out.reads,
                              !.writes = out.writes]
        /\ user_roles' = out.user_roles
        /\ last' = [op |-> "put"]
        /\ UNCHANGED <<now, issued, globalLogoutWatermark, cookie>>
        /\ UNCHANGED <<users, del, last_login, upd>>

\* PUT /api/admin/users: the new roles are inserted
PutInsert ==
    /\ put.pc = "insert"
    /\ \E insertError \in BOOLEAN :
        LET out == putInsert([userId |-> put.userId, roleIds |-> put.roleIds],
                             user_roles, insertError) IN
        /\ put' = [put EXCEPT !.pc = "done",
                              !.response = out.response,
                              !.writes = @ + 1]
        /\ user_roles' = out.user_roles
        /\ last' = [op |-> "put"]
        /\ UNCHANGED <<now, issued, globalLogoutWatermark, cookie>>
        /\ UNCHANGED <<users, del, last_login, upd>>

\* the response is returned; the next request can come
PutReturn ==
    /\ put.pc = "done"
    /\ put' = Idle
    /\ last' = [op |-> "put"]
    /\ UNCHANGED <<now, issued, globalLogoutWatermark, cookie>>
    /\ UNCHANGED <<user_roles, users, del, last_login, upd>>

\* updateUserRoles(userId, roleIds): await removeUserRoles(userId)
UpdRemove ==
    /\ upd.pc = "idle"
    /\ put.pc = "idle"
    /\ \E userId \in {1, 2}, roleIds \in UpdRoleIds, error \in BOOLEAN :
        /\ upd' = [ pc |-> IF roleIds = <<>> THEN "done" ELSE "assign",
                    userId |-> userId, roleIds |-> roleIds, next |-> 1,
                    failed |-> FALSE,
                    before |-> user_roles ]
        /\ user_roles' = removeUserRoles(userId, user_roles, error)
        /\ last' = [op |-> "upd"]
        /\ UNCHANGED <<now, issued, globalLogoutWatermark, cookie>>
        /\ UNCHANGED <<users, del, last_login, put>>

\* updateUserRoles: one turn of the loop, await assignUserRole(userId, roleId)
UpdAssign ==
    /\ upd.pc = "assign"
    /\ \E error \in BOOLEAN :
        /\ upd' = [upd EXCEPT
                    !.pc = IF upd.next = Len(upd.roleIds) THEN "done" ELSE "assign",
                    !.next = @ + 1,
                    !.failed = @ \/ error]
        /\ user_roles' = assignUserRole(upd.userId, upd.roleIds[upd.next],
                                        user_roles, error)
        /\ last' = [op |-> "upd"]
        /\ UNCHANGED <<now, issued, globalLogoutWatermark, cookie>>
        /\ UNCHANGED <<users, del, last_login, put>>

\* updateUserRoles returns
UpdReturn ==
    /\ upd.pc = "done"
    /\ upd' = Idle
    /\ last' = [op |-> "upd"]
    /\ UNCHANGED <<now, issued, globalLogoutWatermark, cookie>>
    /\ UNCHANGED <<user_roles, users, del, last_login, put>>

\* the permission lookups and their callers
NextLookup ==
    \/ Tick
    \/ RequireRole
    \/ RequirePermission
    \/ RolesGET
    \/ UsersGET
    \/ ReadPermissionsFaulty
    \/ ReadHasPermission

SpecLookup == InitGate /\ [][NextLookup]_vars

\* the user administration
NextAdmin ==
    \/ Tick
    \/ UsersGET
    \/ PutGate
    \/ PutBody
    \/ PutInsert
    \/ PutReturn
    \/ UpdRemove
    \/ UpdAssign
    \/ UpdReturn
    \/ ReadPermissions

SpecAdmin == InitAdmin /\ [][NextAdmin]_vars

----------------------------------------------------------------------------
(* Username validator called on every username *)

ValidateUsername ==
    /\ NoCallYet
    /\ \E username \in Usernames :
        /\ last' = [op |-> "validateUsernameDetailed", username |-> username,
                    out |-> validateUsernameDetailed(username)]
        /\ UNCHANGED <<now, issued, globalLogoutWatermark, cookie>>
        /\ UNCHANGED storeVars

IsUsernameValid ==
    /\ NoCallYet
    /\ \E username \in Usernames :
        /\ last' = [op |-> "isUsernameValid", username |-> username,
                    out |-> isUsernameValid(username)]
        /\ UNCHANGED <<now, issued, globalLogoutWatermark, cookie>>
        /\ UNCHANGED storeVars

NextUsername ==
    \/ ValidateUsername
    \/ IsUsernameValid

SpecUsername == Init /\ [][NextUsername]_vars

----------------------------------------------------------------------------
(* Claims about the session manager *)

\* C1: global logout. Once the watermark is set to w, every later
\* verifySession of a token with iat < w returns valid = false, whatever its
\* signature and exp, for the tokens of every user.
C1_GlobalLogout ==
    ( /\ last.op = "verifySession"
      /\ last.token.kind = "jwt"
      /\ last.token.payload.iat < globalLogoutWatermark )
    => ~last.out.valid

\* C2: expiry. A correctly signed token is reported invalid by verifySession
\* and by verifySessionTokenEdge at every instant now >= exp, the instant
\* now = exp included.
C2_Expiry ==
    ( /\ last.op \in {"verifySession", "verifySessionEdge"}
      /\ SignatureOK(last.token)
      /\ now >= last.token.payload.exp )
    => ~last.out.valid

\* the edge check has looked at a signed token at the instant now = exp
C2_Witness ==
    /\ last.op = "verifySessionEdge"
    /\ SignatureOK(last.token)
    /\ now = last.token.payload.exp
    /\ ~last.out.valid

\* C3: round trip. verifySession of the token createSession has just
\* returned, at the same instant, is valid, needs no renewal, and carries
\* the id, username, email and displayName that were passed in.
C3_RoundTrip ==
    last.op = "createSession" =>
        LET r == verifySessionToken(last.out, now) IN
        /\ r.valid
        /\ ~r.needsRenewal
        /\ r.data.id = last.userData.id
        /\ r.data.username = last.userData.username
        /\ r.data.email = last.userData.email
        /\ r.data.displayName = last.userData.displayName

\* a session with a client context and a non-default timeout was created
C3_Witness ==
    /\ last.op = "createSession"
    /\ last.context # NoContext
    /\ last.timeoutSeconds = ShortTimeout
    /\ verifySessionToken(last.out, now).valid

\* C4: renewSession without need. For a valid token with
\* now - lastActivity < ACTIVITY_RENEWAL_THRESHOLD, renewSession returns the
\* token itself, signs nothing, and renewing the result again returns it again.
C4_RenewNoOp ==
    ( /\ last.op = "renewSession"
      /\ verifySessionToken(last.token, now).valid
      /\ now - last.token.payload.lastActivity < ACTIVITY_RENEWAL_THRESHOLD )
    => /\ last.out = last.token
       /\ ~last.signed
       /\ renewSessionToken(last.out, now) = last.out
       /\ last.out \in issued

\* a valid token issued at an earlier instant went through renewSession
C4_Witness ==
    /\ last.op = "renewSession"
    /\ verifySessionToken(last.token, now).valid
    /\ now - last.token.payload.lastActivity < ACTIVITY_RENEWAL_THRESHOLD
    /\ last.token.payload.iat < now
    /\ last.out = last.token

----------------------------------------------------------------------------
(* Claims about renewal and regeneration *)

\* id, username, email and displayName of two payloads agree
SameIdentity(p, q) ==
    /\ p.id = q.id
    /\ p.username = q.username
    /\ p.email = q.email
    /\ p.displayName = q.displayName

\* the client context of two payloads agrees
SameContext(p, q) ==
    /\ p.ipAddress = q.ipAddress
    /\ p.userAgent = q.userAgent

\* C15: renewal preserves the session. When needsRenewal is true,
\* renewSession returns a new token with the identity fields, the sessionId
\* and the client context of its input, iat = now, lastActivity = now and
\* exp = now + timeoutSeconds, the timeout the session was created with; on
\* an invalid or expired input it issues no token.
C15_RenewalPreserves ==
    last.op = "renewSession" =>
        LET result == verifySessionToken(last.token, now) IN
        /\ ~result.valid => ( last.out = NoToken /\ ~last.signed )
        /\ ( result.valid /\ result.needsRenewal ) =>
               LET old == last.token.payload
                   new == last.out.payload IN
               /\ SignatureOK(last.out)
               /\ last.out # last.token
               /\ SameIdentity(new, old)
               /\ new.sessionId = old.sessionId
               /\ SameContext(new, old)
               /\ new.iat = now
               /\ new.lastActivity = now
               /\ new.exp = now + (old.exp - old.iat)

\* renewal as the code does it: exp = now + SESSION_TIMEOUT whatever timeout
\* the session was created with
RenewalUsesDefaultTimeout ==
    ( last.op = "renewSession" /\ last.signed ) =>
        last.out.payload.exp = now + SESSION_TIMEOUT

\* C16: regenerateSession on a valid token returns a token with a sessionId
\* other than its input's, whether or not the input needs renewal, with the
\* identity fields unchanged, iat = lastActivity = now and
\* exp = now + SESSION_TIMEOUT; on an invalid or expired input it returns no
\* token.
C16_Regenerate ==
    last.op = "regenerateSession" =>
        LET result == verifySessionToken(last.token, now) IN
        /\ ~result.valid => last.out = NoToken
        /\ result.valid =>
               LET old == last.token.payload
                   new == last.out.payload IN
               /\ SignatureOK(last.out)
               /\ new.sessionId # old.sessionId
               /\ SameIdentity(new, old)
               /\ new.iat = now
               /\ new.lastActivity = now
               /\ new.exp = now + SESSION_TIMEOUT

\* a session that needs no renewal was regenerated
C16_Witness ==
    /\ last.op = "regenerateSession"
    /\ verifySessionToken(last.token, now).valid
    /\ ~verifySessionToken(last.token, now).needsRenewal
    /\ last.out # NoToken
    /\ last.out.payload.sessionId # last.token.payload.sessionId

\* C17: timing invariants. A token from createSession has
\* exp = iat + timeoutSeconds and lastActivity = iat; each renewal keeps the
\* sessionId and does not lower lastActivity, so along a chain of renewals
\* lastActivity never decreases and the sessionId stays; a derived token has
\* another sessionId than its input only when regenerateSession made it.
C17_TimingInvariants ==
    /\ last.op = "createSession" =>
           /\ last.out.payload.exp = last.out.payload.iat + last.timeoutSeconds
           /\ last.out.payload.lastActivity = last.out.payload.iat
           /\ last.out.payload.iat = now
    /\ ( last.op = "renewSession" /\ last.out # NoToken ) =>
           /\ last.out.payload.sessionId = last.token.payload.sessionId
           /\ last.out.payload.lastActivity >= last.token.payload.lastActivity
    /\ ( /\ last.op \in {"renewSession", "regenerateSession"}
         /\ last.out # NoToken
         /\ last.out.payload.sessionId # last.token.payload.sessionId )
       => last.op = "regenerateSession"
    /\ \A token \in issued :
           /\ token.payload.lastActivity = token.payload.iat
           /\ token.payload.iat <= now

\* a renewed token was renewed again
C17_Witness ==
    /\ last.op = "renewSession"
    /\ last.signed
    /\ last.token.payload.iat > 1
    /\ last.token.payload.exp = last.token.payload.iat + SESSION_TIMEOUT
    /\ last.out.payload.lastActivity > last.token.payload.lastActivity
    /\ last.out.payload.sessionId = last.token.payload.sessionId

----------------------------------------------------------------------------
(* Claims about login and the credential verifier *)

\* the request body carries a usernameOrEmail and a password
LoginFieldsPresent ==
    /\ ~Falsy(last.body.usernameOrEmail)
    /\ ~Falsy(last.body.password)

\* the generic answer to failed credentials
InvalidCredentials ==
    [status |-> 401, error |-> "Invalid username/email or password"]

\* C11: anti-enumeration. Every login request that carries both fields and
\* opens no session, whether the identifier is unknown, the password wrong
\* or the lookup failed, is answered with status 401 and the body
\* {error: 'Invalid username/email or password'}; the answer does not tell
\* whether the identifier exists.
C11_AntiEnumeration ==
    ( /\ last.op = "login"
      /\ LoginFieldsPresent
      /\ last.out.response.status # 200 )
    => last.out.response = InvalidCredentials

\* C12: both failure classes of login go through the credential verifier:
\* every 401 answer comes after one hash comparison (against the dummy hash
\* when there is no user record) and after the minimum-duration floor.
C12_FailuresThroughVerifier ==
    ( /\ last.op = "login"
      /\ last.out.response.status = 401 )
    => ( last.out.comparisons = 1 /\ last.out.floor )

\* C13: verifyPassword returns true only when a stored hash is present and
\* the comparison reports a match; without a stored hash it makes exactly
\* one comparison, against the dummy hash, and returns false whatever the
\* comparison reports; when the comparison raises it returns false and
\* throws nothing.
C13_VerifierResult ==
    last.op = "verifyPassword" =>
        LET stored == ~Falsy(last.hash)
            c == compare(last.password,
                         IF stored THEN last.hash ELSE DUMMY_HASH)
        IN
        /\ ~last.out.threw
        /\ last.out.comparisons = 1
        /\ last.out.result => ( stored /\ ~c.threw /\ c.isValid )
        /\ ~stored => ( last.out.hashToCompare = DUMMY_HASH /\ ~last.out.result )
        /\ c.threw => ~last.out.result
        /\ ( stored /\ ~c.threw /\ c.isValid ) => last.out.result

\* the password of the dummy hash was verified against no stored hash
C13_Witness ==
    /\ last.op = "verifyPassword"
    /\ last.hash = NullHash
    /\ compare(last.password, DUMMY_HASH).isValid
    /\ ~last.out.result
    /\ last.out.comparisons = 1

\* the request names one user record and carries the password of its hash
LoginVerified ==
    /\ last.out.user # NoData
    /\ last.body.password.type = "string"
    /\ last.out.user.password_hash.of = last.body.password.text

\* the login request left the tokens, the cookie and the store as they were
LoginLeftNoTrace ==
    /\ last.out.token = NoToken
    /\ last.out.setCookie = NoSetCookie
    /\ ~last.out.update
    /\ issued = last.before.issued
    /\ cookie = last.before.cookie
    /\ last_login = last.before.last_login

\* C14: login sets the session cookie and updates last_login only when a
\* user record was found and the password comparison returned true; every
\* other path (a missing field, answered 400; a lookup error; an unknown
\* user; a wrong password) signs no token, sets no cookie and writes nothing.
C14_SessionOnlyOnVerified ==
    last.op = "login" =>
        /\ ~LoginFieldsPresent =>
               ( last.out.response.status = 400 /\ LoginLeftNoTrace )
        /\ ( last.lookupError \/ ~LoginVerified ) => LoginLeftNoTrace
        /\ ~LoginLeftNoTrace =>
               /\ LoginFieldsPresent
               /\ LoginVerified
               /\ last.out.response.status = 200
               /\ SignatureOK(last.out.token)
               /\ last.out.token.payload.id = last.out.user.id
               /\ cookie = setSessionCookie(last.out.token)
               /\ \A u \in DOMAIN last_login :
                      last_login[u] # last.before.last_login[u] =>
                          ( u = last.out.user.id /\ last_login[u] = now )

\* a login with the right password after a refused one at an earlier instant
C14_Witness ==
    /\ last.op = "login"
    /\ last.out.response.status = 200
    /\ cookie.value = last.out.token
    /\ last_login[last.out.user.id] = now
    /\ now > 1

----------------------------------------------------------------------------
(* Claims about the authorization gate *)

\* the permission names reachable from a user through one of its roles
EffectivePermissions(userId) ==
    { p.name : p \in
        { x \in PermissionRows :
            \E ur \in user_roles, rp \in RolePermissionRows :
                /\ ur.user_id = userId
                /\ rp.role_id = ur.role_id
                /\ rp.permission_id = x.id } }

\* the gate was called with a token that passes full verification
GateCallAuthenticated ==
    /\ last.op \in {"requireRole", "requirePermission"}
    /\ getUserFromSession(last.token, now) # NoData

\* the permission lookup of the gate call reported an error
GateLookupFailed ==
    /\ GateCallAuthenticated
    /\ getUserPermissions(getUserFromSession(last.token, now).id, Db,
                          last.fault).threw

\* C5: the gate allows only a token that passed full signature
\* verification; a token whose signature does not verify is never allowed,
\* whatever the decode-only check says about it.
C5_NoAllowWithoutSignature ==
    ( /\ last.op \in {"requireRole", "requirePermission"}
      /\ last.out.error = NoError )
    => SignatureOK(last.token)

\* a token the decode-only check accepts and whose signature does not verify
\* was presented for a role every user holds, and was refused
C5_Witness ==
    /\ last.op = "requireRole"
    /\ last.allowedRoles = {"user"}
    /\ last.token.kind = "jwt"
    /\ ~SignatureOK(last.token)
    /\ verifySessionTokenEdge(last.token, now).valid
    /\ last.out.error.status = 401

\* the role set the claim derives from a permission set
C6_DerivedRoles(permissions) ==
    {"user"}
    \cup { r \in {"admin"} : "admin_access" \in permissions }
    \cup { r \in {"manager"} : "manage_users" \in permissions }

\* C6: requireRole(allowedRoles) grants an authenticated user iff
\* allowedRoles meets the role set derived from the user's permissions, and
\* denies with 403 otherwise; requireRole(['admin']) denies {edit_profile}
\* and grants a permission set with admin_access.
C6_RequireRole ==
    ( /\ last.op = "requireRole"
      /\ GateCallAuthenticated
      /\ ~GateLookupFailed )
    => LET user == getUserFromSession(last.token, now)
           permissions == EffectivePermissions(user.id)
           granted == (last.out.error = NoError)
       IN
       /\ granted <=> (last.allowedRoles \cap C6_DerivedRoles(permissions) # {})
       /\ ~granted => last.out.error.status = 403
       /\ ( last.allowedRoles = {"admin"} /\ permissions = {"edit_profile"} )
              => last.out.error.status = 403
       /\ ( last.allowedRoles = {"admin"} /\ "admin_access" \in permissions )
              => granted

\* requireRole(['admin']) refused a user whose permissions are {edit_profile}
C6_Witness ==
    /\ last.op = "requireRole"
    /\ GateCallAuthenticated
    /\ ~GateLookupFailed
    /\ last.allowedRoles = {"admin"}
    /\ EffectivePermissions(getUserFromSession(last.token, now).id)
           = {"edit_profile"}
    /\ last.out.error.status = 403

\* C7: requirePermission(p) grants iff the session is valid and the user has
\* p; a valid session without p gets 403 and the user; no valid session gets
\* 401, user = null, and no lookup in the permission store.
C7_RequirePermission ==
    last.op = "requirePermission" =>
        LET user == getUserFromSession(last.token, now)
            granted == (last.out.error = NoError)
        IN
        /\ granted <=> ( /\ GateCallAuthenticated
                         /\ ~GateLookupFailed
                         /\ last.requiredPermission
                                \in EffectivePermissions(user.id) )
        /\ ( /\ GateCallAuthenticated
             /\ ~GateLookupFailed
             /\ last.requiredPermission \notin EffectivePermissions(user.id) )
           => ( last.out.error.status = 403 /\ last.out.user = user )
        /\ ~GateCallAuthenticated
           => ( /\ last.out.error.status = 401
                /\ last.out.user = NoData
                /\ last.out.lookups = 0 )

\* an expired, correctly signed token was presented to requirePermission
C7_Witness ==
    /\ last.op = "requirePermission"
    /\ SignatureOK(last.token)
    /\ ~GateCallAuthenticated
    /\ last.out.error.status = 401
    /\ last.out.lookups = 0

\* every gate call ends in exactly one of allow, 401, 403, 500, and a failed
\* permission lookup always ends in 500 with no user
C8_GateOutcomes ==
    last.op \in {"requireRole", "requirePermission"} =>
        /\ last.out.error.status \in {0, 401, 403, 500}
        /\ (last.out.error.status = 0) <=> (last.out.error = NoError)
        /\ GateLookupFailed => last.out.error.status = 500
        /\ last.out.error.status = 500 => GateLookupFailed
        /\ (last.out.user = NoData) <=> (last.out.error.status \in {401, 500})

\* the three error kinds map to 401, 403 and 500, every other kind to 500
C8_UnknownKind ==
    last.op = "handleAuthorizationError" =>
        last.out.status =
            CASE last.errorType = "unauthenticated" -> 401
              [] last.errorType = "unauthorized" -> 403
              [] OTHER -> 500

\* C8: every gate call ends in exactly one of allow, 401, 403, 500; a
\* fault of the permission lookup never becomes an allow, a 401 or a 403
\* but always 500; an unknown error kind maps to 500.
C8_Outcomes == C8_GateOutcomes /\ C8_UnknownKind

----------------------------------------------------------------------------
(* Claims about DELETE /api/admin/users *)

\* the caller the role check identified
DeleteCaller == del.role.user

\* both gate layers were called and returned no error
DeleteGatePassed ==
    /\ del.role.error = NoError
    /\ del.perm # NotCalled
    /\ del.perm.error = NoError

\* the request names the caller's own id as its target
DeleteTargetsSelf ==
    /\ DeleteCaller # NoData
    /\ del.userId.present
    /\ del.userId.lead = DeleteCaller.id

DeleteLayerOrder == <<"role", "permission", "userId", "self", "exists", "delete">>

\* C10: the layers of DELETE run in the order role, permission,
\* self-deletion rule, existence and stop at the first failure: no
\* permission check after a failed role check, no read or write of the
\* users table after a failed gate check, and the response is the one of the
\* first failing layer.
C10_LayerOrder ==
    del.pc # "idle" =>
        /\ Len(del.layers) <= Len(DeleteLayerOrder)
        /\ del.layers = SubSeq(DeleteLayerOrder, 1, Len(del.layers))
        /\ del.role.error # NoError =>
               /\ del.pc = "done"
               /\ del.perm = NotCalled
               /\ del.layers = <<"role">>
               /\ del.response = del.role.error
        /\ ( del.perm # NotCalled /\ del.perm.error # NoError ) =>
               /\ del.pc = "done"
               /\ del.layers = <<"role", "permission">>
               /\ del.response = del.perm.error
        /\ ~DeleteGatePassed =>
               ( del.reads = 0 /\ del.writes = 0 /\ users = del.rowsBefore )
        /\ ( del.pc = "done" /\ DeleteGatePassed ) =>
               LET failed == del.layers[Len(del.layers)] IN
               /\ del.response.status = 400 <=> failed = "userId"
               /\ del.response.error = "Cannot delete your own account"
                     <=> failed = "self"
               /\ del.response.status = 404 <=> failed = "exists"
               /\ del.response.status \in {200, 500} <=> failed = "delete"
               /\ failed = "self" => del.reads = 0

\* the role check passed and the permission check refused
C10_Witness ==
    /\ del.pc = "done"
    /\ del.role.error = NoError
    /\ del.perm # NotCalled
    /\ del.perm.error.status = 403
    /\ del.layers = <<"role", "permission">>
    /\ del.reads = 0

----------------------------------------------------------------------------
(* Claims about the admission filter *)

\* C18: deny paths of the admission filter. On a protected path the request
\* proceeds only when a token is present and passes the decode/expiry
\* pre-check; with no token the filter redirects to /login; with a token
\* that fails the pre-check it redirects to /login and clears the session
\* cookie (empty value, max-age 0); a request on another path passes
\* through and no cookie changes.
C18_FilterDenyPaths ==
    last.op = "middleware" =>
        LET precheck == verifySessionTokenEdge(last.token, now) IN
        IF isProtectedRoute(last.pathname)
        THEN /\ last.out.kind = "next" =>
                    ( last.token # NoToken /\ precheck.valid )
             /\ last.token = NoToken =>
                    ( last.out.kind = "redirect" /\ last.out.location = "/login" )
             /\ ( last.token # NoToken /\ ~precheck.valid ) =>
                    /\ last.out.kind = "redirect"
                    /\ last.out.location = "/login"
                    /\ last.out.setCookie =
                           [name |-> "id", value |-> NoToken, maxAge |-> 0]
                    /\ cookie = last.out.setCookie
        ELSE /\ last.out.kind = "next"
             /\ last.out.setCookie = NoSetCookie
             /\ cookie = last.before.cookie

\* an expired session came to a protected path while the browser still
\* held its cookie
C18_Witness ==
    /\ last.op = "middleware"
    /\ isProtectedRoute(last.pathname)
    /\ SignatureOK(last.token)
    /\ now >= last.token.payload.exp
    /\ last.out.kind = "redirect"
    /\ cookie.maxAge = 0

\* C19: opportunistic renewal. A request on a protected path with a valid
\* token and now - lastActivity >= ACTIVITY_RENEWAL_THRESHOLD proceeds, and
\* its own response sets the session cookie to a renewed token; with a valid
\* token that is not stale the request proceeds and no cookie is set.
C19_FilterRenews ==
    ( /\ last.op = "middleware"
      /\ isProtectedRoute(last.pathname)
      /\ last.token # NoToken
      /\ verifySessionToken(last.token, now).valid )
    => LET old == last.token.payload IN
       /\ last.out.kind = "next"
       /\ IF now - old.lastActivity >= ACTIVITY_RENEWAL_THRESHOLD
          THEN /\ last.out.setCookie # NoSetCookie
               /\ last.out.setCookie.name = "id"
               /\ SignatureOK(last.out.setCookie.value)
               /\ last.out.setCookie.value \in issued
               /\ last.out.setCookie.value.payload.sessionId = old.sessionId
               /\ last.out.setCookie.value.payload.id = old.id
               /\ last.out.setCookie.value.payload.lastActivity = now
               /\ last.out.setCookie.value.payload.exp > old.exp
               /\ cookie = last.out.setCookie
          ELSE /\ last.out.setCookie = NoSetCookie
               /\ cookie = last.before.cookie

\* a stale session was renewed on its way to a protected path
C19_Witness ==
    /\ last.op = "middleware"
    /\ isProtectedRoute(last.pathname)
    /\ verifySessionToken(last.token, now).valid
    /\ now - last.token.payload.lastActivity >= ACTIVITY_RENEWAL_THRESHOLD
    /\ last.out.kind = "next"
    /\ cookie.value # last.token
    /\ cookie.value.payload.lastActivity = now

----------------------------------------------------------------------------
(* Claims about the permission resolver *)

\* permission name p is linked to a role assigned to the user
ReachableThroughRole(userId, db, p) ==
    \E ur \in db.user_roles, rp \in db.role_permissions, pm \in db.permissions :
        /\ ur.user_id = userId
        /\ rp.role_id = ur.role_id
        /\ pm.id = rp.permission_id
        /\ pm.name = p

\* C20: permission resolution. Whatever the user_roles, role_permissions
\* and permissions tables hold, getUserPermissions(userId) contains name p
\* exactly when a role assigned to the user is linked to a permission named
\* p, userHasPermission(userId, p) is true exactly when p is among them, and
\* a user without roles, or whose roles have no permissions, gets none.
C20_PermissionResolution ==
    /\ last.op = "getUserPermissions" =>
           /\ ~last.out.threw
           /\ \A p \in {"admin_access", "manage_users", "edit_profile"} :
                  p \in last.out.names
                      <=> ReachableThroughRole(last.userId, last.db, p)
           /\ { r \in last.db.user_roles : r.user_id = last.userId } = {}
                  => last.out.names = {}
           /\ ( \A ur \in last.db.user_roles, rp \in last.db.role_permissions :
                    ur.user_id = last.userId => rp.role_id # ur.role_id )
                  => last.out.names = {}
    /\ last.op = "userHasPermission" =>
           /\ ~last.out.threw
           /\ last.out.has
                  <=> last.requiredPermission
                          \in getUserPermissions(last.userId, last.db, "none").names
           /\ last.out.has
                  <=> ReachableThroughRole(last.userId, last.db,
                                           last.requiredPermission)

\* a user holds two roles and only the second reaches the permission asked for
C20_Witness ==
    /\ last.op = "userHasPermission"
    /\ last.out.has
    /\ Cardinality({ r \in last.db.user_roles : r.user_id = last.userId }) = 2
    /\ \A rp \in last.db.role_permissions :
           rp.role_id = 1 => rp.permission_id = 1
    /\ last.requiredPermission = "manage_users"

----------------------------------------------------------------------------
(* Claims about the username validator *)

\* the username has a character outside letters, digits, hyphen, underscore
HasForbiddenChar(username) ==
    \E i \in 1..Len(username) :
        username[i] \notin AlnumChars \cup HyphenUnderscore

\* C23: validateUsernameDetailed reports invalid every username of 3 to 30
\* characters that contains at least one character outside letters, digits,
\* hyphen and underscore, whatever the character and wherever it stands.
C23_ForbiddenCharsRejected ==
    ( /\ last.op = "validateUsernameDetailed"
      /\ Len(last.username) >= 3
      /\ Len(last.username) <= 30
      /\ HasForbiddenChar(last.username) )
    => ~last.out.isValid

----------------------------------------------------------------------------
(* Claims about verification outcomes *)

\* C24: for every token verifySessionToken reports valid, needsRenewal is
\* true exactly when now - lastActivity >= activityRenewalThreshold, the
\* boundary included; for every token it reports invalid (bad signature,
\* malformed, expired) needsRenewal is false and no identity data is returned.
C24_NeedsRenewal ==
    last.op = "verifySession" =>
        /\ last.out.valid =>
               /\ last.token.kind = "jwt"
               /\ last.out.needsRenewal
                      <=> (now - last.token.payload.lastActivity
                               >= ACTIVITY_RENEWAL_THRESHOLD)
               /\ last.out.data = last.token.payload
        /\ ~last.out.valid =>
               /\ ~last.out.needsRenewal
               /\ last.out.data = NoData
        /\ ( \/ last.token.kind # "jwt"
             \/ ~SignatureOK(last.token)
             \/ now >= last.token.payload.exp ) => ~last.out.valid

\* a valid token is verified at the instant its idle time reaches the
\* threshold, and renewal is asked for
C24_Witness ==
    /\ last.op = "verifySession"
    /\ last.out.valid
    /\ last.out.needsRenewal
    /\ now - last.token.payload.lastActivity = ACTIVITY_RENEWAL_THRESHOLD

\* the token does not split into three segments, or its payload segment
\* does not decode to JSON
Undecodable(token) == token.kind \in {"malformed", "notjson", "none"}

\* C25: a token that does not have exactly three dot-separated segments, or
\* whose payload segment is not decodable JSON, is reported invalid as
\* malformed or invalid and never as "Token expired", in the full and in the
\* edge verification; "Token expired" is reported only for a token that
\* decodes and has now >= exp.
C25_DecodeClassification ==
    last.op \in {"verifySession", "verifySessionEdge"} =>
        /\ Undecodable(last.token) =>
               /\ ~last.out.valid
               /\ last.out.error \in {"Invalid token", "Invalid token format"}
        /\ last.out.error = "Token expired" =>
               /\ ~Undecodable(last.token)
               /\ now >= last.token.payload.exp

\* the edge verification was handed three segments whose payload is not
\* JSON, after it had reported a decodable token expired
C25_Witness ==
    /\ last.op = "verifySessionEdge"
    /\ last.token = NotJson
    /\ last.out.error = "Invalid token"
    /\ \E token \in issued :
           verifySessionTokenEdge(token, now).error = "Token expired"

----------------------------------------------------------------------------
(* Claims about replaced tokens *)

\* renewSessionToken or regenerateSession has just signed a token in place
\* of the one it was handed
ReplacedToken ==
    /\ last.op \in {"renewSession", "regenerateSession"}
    /\ last.out # NoToken
    /\ last.out # last.token

----------------------------------------------------------------------------
(* Claims about the lifetime of a session behind the admission filter *)

\* a request for a protected page carries a token that verifies and whose
\* idle time has reached the renewal threshold
FilterSeesStaleSession ==
    /\ last.op = "middleware"
    /\ isProtectedRoute(last.pathname)
    /\ last.token # NoToken
    /\ SignatureOK(last.token)
    /\ now < last.token.payload.exp
    /\ now - last.token.payload.lastActivity >= ACTIVITY_RENEWAL_THRESHOLD

FilterSetsToken ==
    /\ last.op = "middleware"
    /\ last.out.setCookie # NoSetCookie
    /\ last.out.setCookie.value # NoToken

\* C30: the admission filter never turns an unverified token into a signed
\* one. It attaches a renewed cookie only when the full signature
\* verification of the incoming token succeeded; a token with an invalid
\* signature that passes the decode-only check and looks stale is never
\* exchanged for a signed token, and its payload is never copied into one.
C30_NoSigningOfUnverified ==
    /\ FilterSetsToken =>
           /\ SignatureOK(last.token)
           /\ verifySessionToken(last.token, now).valid
    /\ ( /\ last.op = "middleware"
         /\ last.token # NoToken
         /\ ~SignatureOK(last.token) ) =>
           /\ last.out.setCookie \in {NoSetCookie, clearSessionCookie}
           /\ issued = last.before.issued
    /\ \A token \in issued, forged \in Forged :
           token.payload.sessionId # forged.payload.sessionId

\* a forged token that the decode-only check calls valid and stale went
\* through the filter and got no cookie
C30_Witness ==
    /\ last.op = "middleware"
    /\ last.token \in Forged
    /\ isProtectedRoute(last.pathname)
    /\ verifySessionTokenEdge(last.token, now).valid
    /\ verifySessionTokenEdge(last.token, now).needsRenewal
    /\ last.out = ResponseNext
    /\ issued # {}

----------------------------------------------------------------------------
(* Claims about the admin routes *)

\* the lookup named by `fault` is reached when the permissions of userId
\* are resolved, and reports its error
LookupFails(userId, roles, fault) ==
    \/ fault = "user_roles"
    \/ /\ fault = "role_permissions"
       /\ heldRoles(userId, roles) # {}
    \/ /\ fault = "permissions"
       /\ \E rp \in RolePermissionRows : rp.role_id \in heldRoles(userId, roles)

\* the user the request of `last` is authenticated as, NoData if none
LastCaller ==
    IF last.token = NoToken THEN NoData ELSE getUserFromSession(last.token, now)

\* C21: permission lookup faults are never a silent deny. When one of the
\* three lookups of getUserPermissions reports an error, getUserPermissions
\* and userHasPermission throw and return neither an empty set nor false,
\* and every caller answers the request with a server error (500), never
\* with 403 and never with an allow.
C21_FaultIsServerError ==
    /\ ( /\ last.op \in {"getUserPermissions", "userHasPermission"}
         /\ LookupFails(last.userId, user_roles, last.fault) )
       => last.out.threw
    /\ ( /\ last.op \in {"requireRole", "requirePermission"}
         /\ LastCaller # NoData
         /\ LookupFails(LastCaller.id, user_roles, last.fault) )
       => /\ last.out.error.status = 500
          /\ last.out.user = NoData
    /\ ( /\ last.op = "usersGET"
         /\ LastCaller # NoData
         /\ LookupFails(LastCaller.id, user_roles, last.fault) )
       => /\ last.out.response.status = 500
          /\ last.out.reads = 0
    /\ ( /\ last.op = "rolesGET"
         /\ LastCaller # NoData
         /\ \/ LookupFails(LastCaller.id, user_roles, last.fault1)
            \/ /\ "admin_access" \in EffectivePermissions(LastCaller.id)
               /\ LookupFails(LastCaller.id, user_roles, last.fault2) )
       => /\ last.out.response.status = 500
          /\ last.out.reads = 0

\* GET /api/admin/roles by an administrator: the first permission check
\* passed, the third lookup of the second one failed
C21_Witness ==
    /\ last.op = "rolesGET"
    /\ last.fault1 = "none"
    /\ last.fault2 = "permissions"
    /\ last.out.threw
    /\ last.out.response.status = 500

\* C22: GET and PUT /api/admin/users read or modify user data only when the
\* role check for ['admin', 'manager'] returned no error; when the check
\* returns an error, that response is returned unchanged and no user record
\* or role assignment is read or written.
C22_NoAccessOnDeny ==
    /\ last.op = "usersGET" =>
           /\ last.out.gate.error # NoError =>
                  /\ last.out.response = last.out.gate.error
                  /\ last.out.response.status \in {401, 403, 500}
                  /\ last.out.reads = 0
           /\ last.out.reads > 0 => last.out.gate.error = NoError
    /\ put.pc # "idle" =>
           /\ put.gate.error # NoError =>
                  /\ put.pc = "done"
                  /\ put.response = put.gate.error
                  /\ put.response.status \in {401, 403, 500}
                  /\ put.reads = 0
                  /\ put.writes = 0
                  /\ user_roles = put.before
           /\ ( \/ put.pc \in {"body", "insert"}
                \/ put.reads > 0
                \/ put.writes > 0
                \/ user_roles # put.before ) => put.gate.error = NoError

\* a PUT request of a signed-in user who is neither administrator nor
\* manager was answered 403
C22_Witness ==
    /\ put.pc = "done"
    /\ put.token \in issued
    /\ put.gate.error.status = 403
    /\ put.response.status = 403
    /\ put.writes = 0

\* the permission names of userId when user_roles holds `roles`
PermissionsUnder(userId, roles) ==
    getUserPermissions(userId, [Db EXCEPT !.user_roles = roles], "none").names

\* the PUT request in progress has replaced the roles of its target
PutAssignedRoles ==
    /\ put.pc = "done"
    /\ put.response.status = 200
    /\ put.roleIds.isArray

\* C27: no privilege escalation through role management. A user whose
\* permission set lacks admin_access never comes to hold a role that grants
\* admin_access unless the role assignment was performed by a caller who
\* held admin_access at that moment.
C27_NoEscalation ==
    ( /\ PutAssignedRoles
      /\ "admin_access" \notin PermissionsUnder(put.userId, put.before)
      /\ "admin_access" \in PermissionsUnder(put.userId, user_roles) )
    => "admin_access" \in PermissionsUnder(put.gate.user.id, put.before)

\* getUserPermissions ran for the user whose roles the PUT request has
\* deleted and not yet inserted
ReadDuringPut ==
    /\ last.op = "getUserPermissions"
    /\ last.put.pc = "insert"
    /\ last.put.userId = last.userId

\* getUserPermissions ran for the user whose roles updateUserRoles has
\* removed and not yet all assigned
ReadDuringUpd ==
    /\ last.op = "getUserPermissions"
    /\ last.upd.pc = "assign"
    /\ last.upd.userId = last.userId

\* the elements of a sequence
Range(s) == { s[i] : i \in 1..Len(s) }

\* C28: role replacement is all-or-nothing. For updateUserRoles and for the
\* roleIds branch of PUT /api/admin/users, a concurrent getUserPermissions
\* sees the complete old role set of the user or the complete new one,
\* never the state with the old roles deleted and the new ones not yet
\* inserted, and when the insert fails the old role set is still in place.
C28_AllOrNothing ==
    /\ ReadDuringPut =>
           last.held \in { heldRoles(last.userId, last.put.before),
                           last.put.roleIds.ids }
    /\ ReadDuringUpd =>
           last.held \in { heldRoles(last.userId, last.upd.before),
                           Range(last.upd.roleIds) }
    /\ ( /\ put.pc = "done"
         /\ put.response.error = "Failed to assign new roles" )
       => heldRoles(put.userId, user_roles) = heldRoles(put.userId, put.before)
    /\ ( /\ upd.pc = "done"
         /\ upd.failed )
       => heldRoles(upd.userId, user_roles) = heldRoles(upd.userId, upd.before)

====
